---- MODULE Spec2Model ----
(***************************************************************************)
(* Antigravity Quota Viewer: the Analytics Engine (InsightsService), the   *)
(* Quota Client (QuotaService), the extension's poll scheduling and the    *)
(* Process Locator (ProcessDetector), as state machines.                   *)
(***************************************************************************)
EXTENDS Integers, Sequences, FiniteSets, Bags, TLC

VARIABLES
    \* InsightsService
    history,              \* HistoryEntry[]: [timestamp, models: modelId -> percent]
    sessionStartQuotas,   \* Map<string, number>
    lastActiveModelId,    \* string | undefined
    \* QuotaService
    lastSnapshot,         \* QuotaSnapshot | null
    \* the wall clock read by new Date() / Date.now(), in ms
    now,
    \* what the last analyze call was given and what it returned
    snapshotArg,          \* the snapshot analyze was called with
    mapped,               \* snapshot.models.map(analyzeModel), before the sort
    modelsWithInsights,   \* the same array after the sort: the returned sequence
    health,               \* the returned overallHealth and healthLabel, or null
    \* bookkeeping of the run (no counterpart in the code)
    appended,             \* every HistoryEntry ever pushed, in push order
    lastActiveBefore,     \* lastActiveModelId when the last analyze call began
    baselinesBefore,      \* sessionStartQuotas when the last analyze call began
    calls,                \* number of analyze calls so far
    polls,                \* number of fresh snapshots analysed so far
    \* ProcessDetector.detect
    detPc,                \* where detect stands: idle, ps, ports, probe, wait, done
    maxRetries,           \* detect's argument
    retry,                \* the loop variable i
    info,                 \* parseProcessInfo's result, or null
    ports,                \* getListeningPorts' result
    portIndex,            \* findWorkingPort's position in ports
    detected,             \* what detect returned: a ProcessInfo, or null
    \* bookkeeping of the detection (no counterpart in the code)
    attempts,             \* loop bodies entered
    delays,               \* 500 ms waits started
    probes,               \* the probes of the current attempt: [port, ok]
    verified,             \* probes that answered 200, over the whole call
    failures,             \* what failed during the call: commands and probe outcomes
    \* QuotaService
    port,                 \* number, 0 until setConnection
    csrfToken,            \* string, '' until setConnection
    \* extension.ts
    isInitialized,        \* boolean
    pollingInterval,      \* whether the timer handle is defined
    armed,                \* interval timers armed and not cleared
    enabled,              \* the quotaViewer.enabled setting
    statusBar,            \* what the status bar shows
    retryPrompts,         \* 'Retry' warnings on screen
    tasks,                \* the call chains waiting on I/O: a bag of stacks of frames
    activated,            \* activate has run
    deactivated,          \* deactivate has run
    \* bookkeeping of the client's traffic (no counterpart in the code)
    connections,          \* the <<port, token>> pairs setConnection was called with
    lastConnection,       \* the arguments of the latest setConnection call, or null
    \* QuotaService called directly: its requests and what poll() gave back
    requests,             \* the requests sent and not yet closed
    pollCalls,            \* number of poll() calls so far
    pollReturned,         \* how the latest poll() call left: pending, or the error thrown
    lastGood,             \* bookkeeping: the snapshot of the latest successful poll
    \* QuotaService.parseResponse and what the engine predicts from its result
    rawModels,            \* clientModelConfigs of the response at hand
    rawPlanStatus,        \* userStatus.planStatus of the response at hand, or null
    parsed,               \* what parseResponse made of it: a QuotaSnapshot, or null
    predictions,          \* per parsed resource: predictedExhaustion and its label
    formattedTime,        \* the last formatTime call: its argument and its label
    formattedPrediction,  \* the last formatPrediction call: its argument and its label
    parsedPorts,          \* the last parseListeningPorts call: platform, stdout, result
    parsedInfo            \* the last parseProcessInfo call: platform, stdout, result

engineVars == <<history, sessionStartQuotas, lastActiveModelId>>
callVars == <<snapshotArg, mapped, modelsWithInsights, health, appended,
              lastActiveBefore, baselinesBefore, calls, polls>>
extensionVars == <<port, csrfToken, isInitialized, pollingInterval, armed, enabled,
                   statusBar, retryPrompts, tasks, activated, deactivated,
                   connections, lastConnection>>
clientVars == <<requests, pollCalls, pollReturned, lastGood>>
parseVars == <<rawModels, rawPlanStatus, parsed, predictions,
      formattedTime, formattedPrediction, parsedPorts, parsedInfo>>
detectVars == <<detPc, maxRetries, retry, info, ports, portIndex, detected,
                attempts, delays, probes, verified, failures>>
vars == <<history, sessionStartQuotas, lastActiveModelId, lastSnapshot, now,
          snapshotArg, mapped, modelsWithInsights, health, appended,
          lastActiveBefore, baselinesBefore, calls, polls,
          detPc, maxRetries, retry, info, ports, portIndex, detected,
          attempts, delays, probes, verified, failures,
          port, csrfToken, isInitialized, pollingInterval, armed, enabled,
          statusBar, retryPrompts, tasks, activated, deactivated,
          connections, lastConnection,
          requests, pollCalls, pollReturned, lastGood,
          rawModels, rawPlanStatus, parsed, predictions,
      formattedTime, formattedPrediction, parsedPorts, parsedInfo>>

----------------------------------------------------------------------------
(* Program constants *)

MAX_HISTORY == 20
MsPerHour == 3600000

(* Bounds of the model *)

MaxCalls == 3          \* analyze calls in a run of SpecEngine
MaxHistoryCalls == 22  \* analyze calls in a run of SpecHistory
MaxHistoryPolls == 3   \* fresh snapshots in a run of SpecHistory
MaxInsightCalls == 2   \* analyze calls in a run of SpecInsights
MaxSortCalls == 2      \* analyze calls in a run of SpecSort

(* Values *)

UNDEFINED == "undefined"
\* null, where the other values are records
NULL == [null |-> TRUE]
ModelIds == {"a", "b"}
Percents == {40, 49, 50}
ClockSteps == {MsPerHour}

Min(x, y) == IF x <= y THEN x ELSE y
Max(x, y) == IF x >= y THEN x ELSE y

RECURSIVE GCD(_, _)
GCD(a, b) == IF b = 0 THEN a ELSE GCD(b, a % b)

\* Math.round of the fraction a/b >= 0
RoundFraction(a, b) == (2 * a + b) \div (2 * b)

ModelQuota(id, pct) == [modelId |-> id, remainingPercent |-> pct]

\* The model lists a poll can deliver: up to two resources with distinct ids,
\* in either order.
ModelLists ==
    {<<>>}
    \cup {<<ModelQuota(i, p)>> : i \in ModelIds, p \in Percents}
    \cup {<<ModelQuota(ij[1], p), ModelQuota(ij[2], q)>> :
            ij \in {x \in ModelIds \X ModelIds : x[1] # x[2]},
            p \in Percents, q \in Percents}

\* The model lists of the long runs: from the first to the second "a" drops by
\* ten points and "b" disappears; the third has "a" one point under the first.
HistoryModelLists ==
    {<<ModelQuota("b", 50), ModelQuota("a", 50)>>,
     <<ModelQuota("a", 40)>>,
     <<ModelQuota("a", 49), ModelQuota("b", 50)>>}

----------------------------------------------------------------------------
(* InsightsService *)

\* Map.set(key, value)
MapSet(m, k, v) == [x \in (DOMAIN m) \cup {k} |-> IF x = k THEN v ELSE m[x]]

EmptyMap == [x \in {} |-> 0]

RECURSIVE EntryModels(_, _)
\* for (const model of snapshot.models) entry.models.set(...)
EntryModels(models, m) ==
    IF models = <<>> THEN m
    ELSE EntryModels(Tail(models),
                     MapSet(m, Head(models).modelId, Head(models).remainingPercent))

HistoryEntry(snapshot) ==
    [timestamp |-> snapshot.timestamp, models |-> EntryModels(snapshot.models, EmptyMap)]

\* recordSnapshot trimming one entry too early (>= for >)
RecordSnapshotEarlyTrim(h, snapshot) ==
    LET pushed == Append(h, HistoryEntry(snapshot))
    IN  IF Len(pushed) >= MAX_HISTORY THEN Tail(pushed) ELSE pushed

\* recordSnapshot: push, then shift once when over MAX_HISTORY
RecordSnapshot(h, snapshot) ==
    LET pushed == Append(h, HistoryEntry(snapshot))
    IN  IF Len(pushed) > MAX_HISTORY THEN Tail(pushed) ELSE pushed

RECURSIVE InitSessionStartOverwrite(_, _)
\* initSessionStart without the has() test: the last percent seen wins
InitSessionStartOverwrite(q, models) ==
    IF models = <<>> THEN q
    ELSE InitSessionStartOverwrite(
             MapSet(q, Head(models).modelId, Head(models).remainingPercent),
             Tail(models))

RECURSIVE InitSessionStart(_, _)
\* initSessionStart: set only the ids the map does not hold yet
InitSessionStart(q, models) ==
    IF models = <<>> THEN q
    ELSE LET model == Head(models)
         IN  InitSessionStart(
                 IF model.modelId \in DOMAIN q THEN q
                 ELSE MapSet(q, model.modelId, model.remainingPercent),
                 Tail(models))

\* A burn rate in %/hour is the fraction num/den; 0 is always ZeroRate, and the
\* non-zero rates computed from one history all have den = the elapsed ms.
ZeroRate == [num |-> 0, den |-> 1]

\* calculateBurnRate without Math.max(0, ...): a recovering quota burns negatively
CalculateBurnRateNoClamp(h, modelId) ==
    IF Len(h) < 2 THEN ZeroRate
    ELSE LET oldest == h[1]
             newest == h[Len(h)]
         IN  IF modelId \notin DOMAIN oldest.models \/ modelId \notin DOMAIN newest.models
             THEN ZeroRate
             ELSE LET deltaPercent == oldest.models[modelId] - newest.models[modelId]
                      deltaMs == newest.timestamp - oldest.timestamp
                  IN  IF deltaMs <= 0 THEN ZeroRate
                      ELSE IF deltaPercent = 0 THEN ZeroRate
                      ELSE [num |-> deltaPercent * MsPerHour, den |-> deltaMs]

\* calculateBurnRate
CalculateBurnRate(h, modelId) ==
    IF Len(h) < 2 THEN ZeroRate
    ELSE LET oldest == h[1]
             newest == h[Len(h)]
         IN  IF modelId \notin DOMAIN oldest.models \/ modelId \notin DOMAIN newest.models
             THEN ZeroRate
             ELSE LET deltaPercent == oldest.models[modelId] - newest.models[modelId]
                      deltaMs == newest.timestamp - oldest.timestamp
                  IN  IF deltaMs <= 0 THEN ZeroRate
                      ELSE IF deltaPercent <= 0 THEN ZeroRate
                      ELSE [num |-> deltaPercent * MsPerHour, den |-> deltaMs]

\* r1 <= r2, for rates computed from the same history
RateLE(r1, r2) ==
    IF r1 = ZeroRate THEN TRUE
    ELSE IF r2 = ZeroRate THEN FALSE
    ELSE r1.num <= r2.num

\* burnRate > 1.0
RateAboveOne(r) == r.num > r.den

\* burnRate > c, for a whole number c
RateAbove(r, c) ==
    LET g == GCD(r.num, r.den)
    IN  r.num \div g > c * (r.den \div g)

\* Math.max(...snapshot.models.map(m => calculateBurnRate(m.modelId)))
MaxBurnRate(models, h) ==
    LET rates == {CalculateBurnRate(h, models[k].modelId) : k \in DOMAIN models}
    IN  CHOOSE r \in rates : \A o \in rates : RateLE(o, r)

\* calculateSessionUsage
CalculateSessionUsage(q, modelId, currentPercent) ==
    IF modelId \notin DOMAIN q THEN 0
    ELSE Max(0, q[modelId] - currentPercent)

\* detectActiveModel with the removed "Strategy 3" still in place: the resource
\* with the lowest remaining percent is active when nothing else says so
DetectActiveModelLowest(model, models, h, last) ==
    LET burnRate == CalculateBurnRate(h, model.modelId)
    IN  IF RateAboveOne(burnRate) /\ burnRate = MaxBurnRate(models, h) THEN TRUE
        ELSE IF last = model.modelId THEN TRUE
        ELSE \A k \in DOMAIN models :
                 model.remainingPercent <= models[k].remainingPercent

\* detectActiveModel with a persistence that lapses once the resource
\* stops burning
DetectActiveModelDecaying(model, models, h, last) ==
    LET burnRate == CalculateBurnRate(h, model.modelId)
    IN  IF RateAboveOne(burnRate) /\ burnRate = MaxBurnRate(models, h) THEN TRUE
        ELSE IF last = model.modelId /\ burnRate # ZeroRate THEN TRUE
        ELSE FALSE

\* detectActiveModel
DetectActiveModel(model, models, h, last) ==
    LET burnRate == CalculateBurnRate(h, model.modelId)
    IN  IF RateAboveOne(burnRate) /\ burnRate = MaxBurnRate(models, h) THEN TRUE
        ELSE IF last = model.modelId THEN TRUE
        ELSE FALSE

\* getTrendDirection with its first two tests exchanged
GetTrendDirectionWarningFirst(remainingPercent, burnRate) ==
    IF remainingPercent <= 25 \/ RateAbove(burnRate, 10) THEN "warning"
    ELSE IF remainingPercent <= 10 \/ RateAbove(burnRate, 20) THEN "critical"
    ELSE IF RateAbove(burnRate, 2) THEN "decreasing"
    ELSE "stable"

\* getTrendDirection
GetTrendDirection(remainingPercent, burnRate) ==
    IF remainingPercent <= 10 \/ RateAbove(burnRate, 20) THEN "critical"
    ELSE IF remainingPercent <= 25 \/ RateAbove(burnRate, 10) THEN "warning"
    ELSE IF RateAbove(burnRate, 2) THEN "decreasing"
    ELSE "stable"

\* analyzeModel: the enriched resource
AnalyzeModel(model, models, h, q, last) ==
    [modelId |-> model.modelId,
     remainingPercent |-> model.remainingPercent,
     burnRate |-> CalculateBurnRate(h, model.modelId),
     trendDirection |->
         GetTrendDirection(model.remainingPercent, CalculateBurnRate(h, model.modelId)),
     sessionUsage |-> CalculateSessionUsage(q, model.modelId, model.remainingPercent),
     isActive |-> DetectActiveModel(model, models, h, last)]

RECURSIVE MapAnalyze(_, _, _, _, _, _)
\* snapshot.models.map(model => analyzeModel(model, snapshot)); analyzeModel
\* sets lastActiveModelId as it goes. Yields the array and the final id.
MapAnalyze(k, models, h, q, last, acc) ==
    IF k > Len(models) THEN [out |-> acc, last |-> last]
    ELSE LET m == AnalyzeModel(models[k], models, h, q, last)
         IN  MapAnalyze(k + 1, models, h, q,
                        IF m.isActive THEN m.modelId ELSE last,
                        Append(acc, m))

\* the sort's comparator(a, b) <= 0
\* a comparator that ignores which resources are active
SortLEByPercentOnly(a, b) == a.remainingPercent <= b.remainingPercent

SortLE(a, b) ==
    IF a.isActive /\ ~b.isActive THEN TRUE
    ELSE IF ~a.isActive /\ b.isActive THEN FALSE
    ELSE a.remainingPercent <= b.remainingPercent

RECURSIVE InsertSorted(_, _)
InsertSorted(sorted, x) ==
    IF sorted = <<>> THEN <<x>>
    ELSE IF SortLE(Head(sorted), x) THEN <<Head(sorted)>> \o InsertSorted(Tail(sorted), x)
    ELSE <<x>> \o sorted

RECURSIVE SortModels(_)
\* Array.prototype.sort is stable: equal elements keep their order
SortModels(s) ==
    IF s = <<>> THEN <<>>
    ELSE InsertSorted(SortModels(SubSeq(s, 1, Len(s) - 1)), s[Len(s)])

RECURSIVE HealthTotals(_, _, _)
\* the loop of calculateOverallHealth for the weight `active` of an active
\* resource: totalWeight and weightedSum
HealthTotals(models, active, totals) ==
    IF models = <<>> THEN totals
    ELSE LET model == Head(models)
             weight == IF model.isActive THEN active ELSE 1
         IN  HealthTotals(Tail(models), active,
                          [totalWeight |-> totals.totalWeight + weight,
                           weightedSum |->
                               totals.weightedSum + model.remainingPercent * weight])

\* calculateOverallHealth for the weight `active` of an active resource
OverallHealth(models, active) ==
    IF Len(models) = 0 THEN [overallHealth |-> 100, healthLabel |-> "Unknown"]
    ELSE LET totals == HealthTotals(models, active, [totalWeight |-> 0, weightedSum |-> 0])
             overallHealth == RoundFraction(totals.weightedSum, totals.totalWeight)
         IN  [overallHealth |-> overallHealth,
              healthLabel |->
                  IF overallHealth >= 75 THEN "Excellent"
                  ELSE IF overallHealth >= 50 THEN "Good"
                  ELSE IF overallHealth >= 25 THEN "Low"
                  ELSE "Critical"]

\* calculateOverallHealth with every resource weighing the same
CalculateOverallHealthUnweighted(models) == OverallHealth(models, 1)

\* calculateOverallHealth
CalculateOverallHealth(models) == OverallHealth(models, 3)

\* The engine's state, with what its last call was given and returned
Engine ==
    [history |-> history,
     sessionStartQuotas |-> sessionStartQuotas,
     lastActiveModelId |-> lastActiveModelId,
     snapshotArg |-> snapshotArg,
     mapped |-> mapped,
     modelsWithInsights |-> modelsWithInsights,
     health |-> health,
     appended |-> appended,
     lastActiveBefore |-> lastActiveBefore,
     baselinesBefore |-> baselinesBefore,
     calls |-> calls]

\* analyze(snapshot): the engine's state after the call
AnalyzeEngine(E, snapshot) ==
    LET h == RecordSnapshot(E.history, snapshot)
        q == InitSessionStart(E.sessionStartQuotas, snapshot.models)
        r == MapAnalyze(1, snapshot.models, h, q, E.lastActiveModelId, <<>>)
    IN  [history |-> h,
         sessionStartQuotas |-> q,
         lastActiveModelId |-> r.last,
         snapshotArg |-> snapshot,
         mapped |-> r.out,
         modelsWithInsights |-> SortModels(r.out),
         health |-> CalculateOverallHealth(SortModels(r.out)),
         appended |-> Append(E.appended, HistoryEntry(snapshot)),
         lastActiveBefore |-> E.lastActiveModelId,
         baselinesBefore |-> E.sessionStartQuotas,
         calls |-> E.calls + 1]

SetEngine(E) ==
    /\ history' = E.history
    /\ sessionStartQuotas' = E.sessionStartQuotas
    /\ lastActiveModelId' = E.lastActiveModelId
    /\ snapshotArg' = E.snapshotArg
    /\ mapped' = E.mapped
    /\ modelsWithInsights' = E.modelsWithInsights
    /\ health' = E.health
    /\ appended' = E.appended
    /\ lastActiveBefore' = E.lastActiveBefore
    /\ baselinesBefore' = E.baselinesBefore
    /\ calls' = E.calls

\* analyze(snapshot), as a change of the engine's state
Analyze(snapshot) == SetEngine(AnalyzeEngine(Engine, snapshot))

----------------------------------------------------------------------------
(* The engine driven by its two callers *)

Init ==
    /\ history = <<>>
    /\ sessionStartQuotas = EmptyMap
    /\ lastActiveModelId = UNDEFINED
    /\ lastSnapshot = NULL
    /\ now = 0
    /\ snapshotArg = NULL
    /\ mapped = <<>>
    /\ modelsWithInsights = <<>>
    /\ health = NULL
    /\ appended = <<>>
    /\ lastActiveBefore = UNDEFINED
    /\ baselinesBefore = EmptyMap
    /\ calls = 0
    /\ polls = 0
    /\ detPc = "idle"
    /\ maxRetries = 0
    /\ retry = 0
    /\ info = NULL
    /\ ports = <<>>
    /\ portIndex = 0
    /\ detected = NULL
    /\ attempts = 0
    /\ delays = 0
    /\ probes = <<>>
    /\ verified = 0
    /\ failures = {}
    /\ port = 0
    /\ csrfToken = ""
    /\ isInitialized = FALSE
    /\ pollingInterval = FALSE
    /\ armed = 0
    /\ enabled = TRUE
    /\ statusBar = ""
    /\ retryPrompts = 0
    /\ tasks = EmptyBag
    /\ activated = FALSE
    /\ deactivated = FALSE
    /\ connections = {}
    /\ lastConnection = NULL
    /\ requests = {}
    /\ pollCalls = 0
    /\ pollReturned = ""
    /\ lastGood = NULL
    /\ rawModels = <<>>
    /\ rawPlanStatus = NULL
    /\ parsed = NULL
    /\ predictions = <<>>
    /\ formattedTime = NULL
    /\ formattedPrediction = NULL
    /\ parsedPorts = NULL
    /\ parsedInfo = NULL

\* pollAndUpdate's success path: a poll retained a fresh snapshot, stamped with
\* the clock, and it is analysed
AnalyzeSnapshot(models, step) ==
    LET snapshot == [timestamp |-> now + step, models |-> models]
    IN  /\ now' = now + step
        /\ lastSnapshot' = snapshot
        /\ polls' = polls + 1
        /\ Analyze(snapshot)
        /\ UNCHANGED detectVars
        /\ UNCHANGED extensionVars
        /\ UNCHANGED clientVars
        /\ UNCHANGED parseVars

\* showQuickStatus / showDashboard: the retained snapshot is analysed again
AnalyzeRetained ==
    /\ lastSnapshot # NULL
    /\ Analyze(lastSnapshot)
    /\ UNCHANGED <<lastSnapshot, now, polls>>
    /\ UNCHANGED detectVars
    /\ UNCHANGED extensionVars
    /\ UNCHANGED clientVars
    /\ UNCHANGED parseVars

NextEngine ==
    \/ \E models \in ModelLists, step \in ClockSteps :
          calls < MaxCalls /\ AnalyzeSnapshot(models, step)
    \/ calls < MaxCalls /\ AnalyzeRetained

SpecEngine == Init /\ [][NextEngine]_vars

NextHistory ==
    \/ \E models \in HistoryModelLists, step \in ClockSteps :
          /\ calls < MaxHistoryCalls
          /\ polls < MaxHistoryPolls
          /\ AnalyzeSnapshot(models, step)
    \/ calls < MaxHistoryCalls /\ AnalyzeRetained

SpecHistory == Init /\ [][NextHistory]_vars

\* The percents of the runs that exercise trend, health and session usage:
\* on both sides of the thresholds 10, 25, 50 and 75, with drops of exactly 2,
\* 10 and 20 points, and of less and more, between two of them
InsightPercents == {8, 25, 28, 30, 40, 48, 100}

\* "a" alone, or "a" followed by "b"
InsightModelLists ==
    {<<>>}
    \cup {<<ModelQuota("a", p)>> : p \in InsightPercents}
    \cup {<<ModelQuota("a", p), ModelQuota("b", q)>> :
            p \in InsightPercents, q \in InsightPercents}

NextInsights ==
    \/ \E models \in InsightModelLists, step \in ClockSteps :
          calls < MaxInsightCalls /\ AnalyzeSnapshot(models, step)
    \/ calls < MaxInsightCalls /\ AnalyzeRetained

SpecInsights == Init /\ [][NextInsights]_vars

\* The percents of the runs that exercise the sort: equal and different
SortPercents == {25, 30, 45}

\* up to three resources "a", "b", "c" in the order of the response
SortModelLists ==
    {<<>>}
    \cup {<<ModelQuota("a", p)>> : p \in SortPercents}
    \cup {<<ModelQuota("a", p), ModelQuota("b", q)>> :
            p \in SortPercents, q \in SortPercents}
    \cup {<<ModelQuota("a", p), ModelQuota("b", q), ModelQuota("c", r)>> :
            p \in SortPercents, q \in SortPercents, r \in SortPercents}

NextSort ==
    \/ \E models \in SortModelLists, step \in ClockSteps :
          calls < MaxSortCalls /\ AnalyzeSnapshot(models, step)
    \/ calls < MaxSortCalls /\ AnalyzeRetained

SpecSort == Init /\ [][NextSort]_vars

----------------------------------------------------------------------------
(* ProcessDetector *)

MaxRetriesArg == 3     \* detect is called with maxRetries in 0..MaxRetriesArg

\* findWorkingPort's "return null", and an unset port
NoPort == 0

PortNumbers == {42001, 42002, 42003}

\* What parseListeningPorts returns: distinct ports, sorted ascending
PortLists ==
    {<<>>}
    \cup {<<p>> : p \in PortNumbers}
    \cup {pq \in PortNumbers \X PortNumbers : pq[1] < pq[2]}
    \cup {<<42001, 42002, 42003>>}

\* What parseProcessInfo returns on a match; a Unix command line without the
\* token flag gives the empty token
ProcessInfos ==
    {[pid |-> 4711, extensionPort |-> 42000, csrfToken |-> tok] : tok \in {"", "t1"}}

\* How a probe's request ends
ProbeOutcomes == {"200", "404", "error", "timeout"}

\* testPort: true for a response with status 200, false for any other
\* response, an error or a timeout
TestPort(outcome) == outcome = "200"

\* the for loop's test off by one (<= for <)
LoopContinuesInclusive(k, n) == k <= n

\* for (let i = 0; i < maxRetries; i++)
LoopContinues(k, n) == k < n

\* the wait before a retry without its test for the last attempt
WaitsBeforeRetryAlways(k, n) == k < n

\* if (i < maxRetries - 1) await the 500 ms delay
WaitsBeforeRetry(k, n) == k < n - 1

\* findWorkingPort that keeps probing after a success and returns the last
\* port that answered
FindWorkingPortStepLast(ok, k, n) ==
    IF k < n THEN "next" ELSE IF ok THEN "found" ELSE "none"

\* findWorkingPort after the probe of ports[k], of n ports: return the port,
\* probe the next one, or return null
FindWorkingPortStep(ok, k, n) ==
    IF ok THEN "found" ELSE IF k < n THEN "next" ELSE "none"

\* detect that lets an exception of the loop body escape
AfterThrowRethrown == "rejected"

\* try { ... } catch (error) { console.error(...) }: an exception thrown in
\* the loop body ends the attempt; without the catch detect would reject
AfterThrow == "caught"

\* The loop body begins: the process-list command is started
StartAttempt(k) ==
    /\ detPc' = "ps"
    /\ retry' = k
    /\ attempts' = attempts + 1
    /\ info' = NULL
    /\ ports' = <<>>
    /\ portIndex' = 0
    /\ probes' = <<>>

\* The loop body ended without a return: wait and go on, or leave the loop
EndAttempt ==
    IF WaitsBeforeRetry(retry, maxRetries)
    THEN /\ detPc' = "wait"
         /\ delays' = delays + 1
         /\ UNCHANGED <<retry, attempts, detected>>
    ELSE IF LoopContinues(retry + 1, maxRetries)
    THEN /\ detPc' = "ps"
         /\ retry' = retry + 1
         /\ attempts' = attempts + 1
         /\ UNCHANGED <<delays, detected>>
    ELSE /\ detPc' = "done"
         /\ retry' = retry + 1
         /\ detected' = NULL
         /\ UNCHANGED <<delays, attempts>>

\* detect(n) is called
DetectCall(n) ==
    /\ detPc = "idle"
    /\ maxRetries' = n
    /\ IF LoopContinues(0, n)
       THEN StartAttempt(0) /\ UNCHANGED detected
       ELSE /\ detPc' = "done"
            /\ detected' = NULL
            /\ UNCHANGED <<retry, attempts, info, ports, portIndex, probes>>
    /\ failures' = {}
    /\ UNCHANGED <<delays, verified>>

\* The process-list command failed or timed out (execAsync rejects): the
\* catch block
ProcessListFails ==
    /\ detPc = "ps"
    /\ failures' = failures \cup {"process list"}
    /\ IF AfterThrow = "caught"
       THEN EndAttempt
       ELSE /\ detPc' = "rejected"
            /\ UNCHANGED <<retry, attempts, delays, detected>>
    /\ UNCHANGED <<maxRetries, info, ports, portIndex, probes, verified>>

\* The process-list command's output holds no match: parseProcessInfo is null
ProcessListNoMatch ==
    /\ detPc = "ps"
    /\ EndAttempt
    /\ UNCHANGED <<maxRetries, info, ports, portIndex, probes, verified, failures>>

\* parseProcessInfo found the process: the port-list command is started
ProcessListMatch(found) ==
    /\ detPc = "ps"
    /\ info' = found
    /\ detPc' = "ports"
    /\ UNCHANGED <<maxRetries, retry, ports, portIndex, detected, attempts,
                   delays, probes, verified, failures>>

\* getListeningPorts: the port-list command failed or timed out, the catch
\* block returns [] and the attempt ends with no port to probe
PortListFails ==
    /\ detPc = "ports"
    /\ ports' = <<>>
    /\ failures' = failures \cup {"port list"}
    /\ EndAttempt
    /\ UNCHANGED <<maxRetries, info, portIndex, probes, verified>>

\* getListeningPorts returned the parsed ports; with ports, findWorkingPort
\* probes the first
PortListDone(list) ==
    /\ detPc = "ports"
    /\ ports' = list
    /\ IF Len(list) > 0
       THEN /\ detPc' = "probe"
            /\ portIndex' = 1
            /\ UNCHANGED <<retry, detected, attempts, delays>>
       ELSE /\ EndAttempt
            /\ UNCHANGED portIndex
    /\ UNCHANGED <<maxRetries, info, probes, verified, failures>>

\* The probe of ports[portIndex] ended
ProbeDone(outcome) ==
    /\ detPc = "probe"
    /\ LET ok == TestPort(outcome)
           probed == ports[portIndex]
           step == FindWorkingPortStep(ok, portIndex, Len(ports))
       IN  /\ probes' = Append(probes, [port |-> probed, ok |-> ok])
           /\ verified' = IF ok THEN verified + 1 ELSE verified
           /\ failures' = IF ok THEN failures ELSE failures \cup {outcome}
           /\ IF step = "found" /\ probed # NoPort
              THEN /\ detPc' = "done"
                   /\ detected' = [pid |-> info.pid,
                                   extensionPort |-> info.extensionPort,
                                   connectPort |-> probed,
                                   csrfToken |-> info.csrfToken]
                   /\ UNCHANGED <<retry, attempts, delays, portIndex>>
              ELSE IF step = "next"
              THEN /\ portIndex' = portIndex + 1
                   /\ UNCHANGED <<detPc, retry, attempts, delays, detected>>
              ELSE /\ EndAttempt
                   /\ UNCHANGED portIndex
    /\ UNCHANGED <<maxRetries, info, ports>>

\* The 500 ms delay elapsed: i++ and the next loop body
DelayDone ==
    /\ detPc = "wait"
    /\ IF LoopContinues(retry + 1, maxRetries)
       THEN StartAttempt(retry + 1) /\ UNCHANGED detected
       ELSE /\ detPc' = "done"
            /\ retry' = retry + 1
            /\ detected' = NULL
            /\ UNCHANGED <<attempts, info, ports, portIndex, probes>>
    /\ UNCHANGED <<maxRetries, delays, verified, failures>>

otherThanDetect == <<history, sessionStartQuotas, lastActiveModelId, lastSnapshot,
                     now, snapshotArg, mapped, modelsWithInsights, health, appended,
                     lastActiveBefore, baselinesBefore, calls, polls>>

NextDetect ==
    /\ \/ \E n \in 0..MaxRetriesArg : DetectCall(n)
       \/ ProcessListFails
       \/ ProcessListNoMatch
       \/ \E found \in ProcessInfos : ProcessListMatch(found)
       \/ PortListFails
       \/ \E list \in PortLists : PortListDone(list)
       \/ \E outcome \in ProbeOutcomes : ProbeDone(outcome)
       \/ DelayDone
    /\ UNCHANGED otherThanDetect
    /\ UNCHANGED extensionVars
    /\ UNCHANGED clientVars
    /\ UNCHANGED parseVars

SpecDetect == Init /\ [][NextDetect]_vars

----------------------------------------------------------------------------
(* QuotaService and the extension's entry points *)

MaxTasks == 2          \* asynchronous call chains waiting on I/O at once
MaxStack == 1          \* frames of a call chain whose detection can return an empty token
MaxPrompts == 1        \* 'Retry' warnings on screen at once
MaxExtensionCalls == 2 \* analyze calls in a run of SpecExtension

\* What detect resolves to when it finds the server: the verified port and the
\* token of the command line (empty when the command line has no token flag)
Descriptors ==
    {[connectPort |-> 42001, csrfToken |-> "t1"],
     [connectPort |-> 42002, csrfToken |-> "t2"],
     [connectPort |-> 42002, csrfToken |-> ""]}

DetectResults == {NULL} \cup Descriptors

\* The model list a poll of the extension delivers
PollModelLists == {<<ModelQuota("a", 50)>>}

\* How a poll's request fails, by the message of the error: the 10 s timeout
\* (other rejections differ in the message only)
PollFailures == {"Request timeout"}

\* One function of an asynchronous call chain, stopped at an await: fn is the
\* function, at is what it awaits; initialize keeps the config it read on
\* entry, the request keeps the port and the token it was sent with
Frame(fn, at, en, p, t) ==
    [fn |-> fn, at |-> at, enabled |-> en, port |-> p, csrfToken |-> t]

Top(stack) == stack[Len(stack)]
Pop(stack) == SubSeq(stack, 1, Len(stack) - 1)

\* The module's globals, the client's fields and the engine
Globals ==
    [isInitialized |-> isInitialized,
     pollingInterval |-> pollingInterval,
     armed |-> armed,
     enabled |-> enabled,
     port |-> port,
     csrfToken |-> csrfToken,
     lastSnapshot |-> lastSnapshot,
     now |-> now,
     polls |-> polls,
     statusBar |-> statusBar,
     retryPrompts |-> retryPrompts,
     connections |-> connections,
     lastConnection |-> lastConnection,
     E |-> Engine]

SetGlobals(G) ==
    /\ isInitialized' = G.isInitialized
    /\ pollingInterval' = G.pollingInterval
    /\ armed' = G.armed
    /\ enabled' = G.enabled
    /\ port' = G.port
    /\ csrfToken' = G.csrfToken
    /\ lastSnapshot' = G.lastSnapshot
    /\ now' = G.now
    /\ polls' = G.polls
    /\ statusBar' = G.statusBar
    /\ retryPrompts' = G.retryPrompts
    /\ connections' = G.connections
    /\ lastConnection' = G.lastConnection
    /\ SetEngine(G.E)

\* setConnection that keeps a port once one is set
SetConnectionKeepPort(G, p, t) ==
    [G EXCEPT !.port = IF @ = NoPort THEN p ELSE @,
              !.csrfToken = t,
              !.connections = @ \cup {<<p, t>>},
              !.lastConnection = [port |-> p, csrfToken |-> t]]

\* QuotaService.setConnection
SetConnection(G, p, t) ==
    [G EXCEPT !.port = p,
              !.csrfToken = t,
              !.connections = @ \cup {<<p, t>>},
              !.lastConnection = [port |-> p, csrfToken |-> t]]

\* QuotaService.isConfigured
IsConfigured(G) == G.port > 0 /\ G.csrfToken # ""

\* stopPolling
StopPolling(G) ==
    IF G.pollingInterval
    THEN [G EXCEPT !.armed = @ - 1, !.pollingInterval = FALSE]
    ELSE G

\* startPolling without its stopPolling() call
StartPollingNoCancel(G) ==
    [G EXCEPT !.armed = @ + 1, !.pollingInterval = TRUE]

\* startPolling
StartPolling(G) ==
    [StopPolling(G) EXCEPT !.armed = @ + 1, !.pollingInterval = TRUE]

\* QuotaService.request: the options are built from the port and the token
\* the client holds when it is called, and the request is sent
Request(G) == Frame("pollAndUpdate", "poll", FALSE, G.port, G.csrfToken)

\* insightsService.analyze(snapshot) on the retained snapshot
AnalyzeLast(G) == [G EXCEPT !.E = AnalyzeEngine(@, G.lastSnapshot)]

RECURSIVE Return(_, _)
\* The awaited call returned: the frames of the stack run on, innermost
\* first, each to its end.  The result is the globals afterwards and the
\* stack that is left.
Return(G, stack) ==
    IF stack = <<>> THEN [G |-> G, stack |-> <<>>]
    ELSE LET f == Top(stack)
         IN  CASE f.fn = "pollAndUpdate" ->
                    \* await initialize(context); return
                    Return(G, Pop(stack))
               [] f.fn = "initialize" ->
                    \* after the initial poll: start polling if enabled
                    Return([(IF f.enabled THEN StartPolling(G) ELSE G)
                               EXCEPT !.isInitialized = TRUE],
                           Pop(stack))
               [] f.fn = "showDashboard" ->
                    \* after pollAndUpdate: show what the client retained
                    Return(IF G.lastSnapshot # NULL THEN AnalyzeLast(G) ELSE G,
                           Pop(stack))

RECURSIVE CallInitialize(_, _)
RECURSIVE CallPollAndUpdate(_, _)

\* initialize(context), called under the frames of stack, up to its first
\* await
CallInitialize(G, stack) ==
    IF G.isInitialized THEN Return(G, stack)
    ELSE [G |-> [G EXCEPT !.statusBar = "detecting"],
          stack |-> Append(stack, Frame("initialize", "detect", G.enabled, NoPort, ""))]

\* pollAndUpdate(context), called under the frames of stack, up to its first
\* await
CallPollAndUpdate(G, stack) ==
    IF ~IsConfigured(G)
    THEN CallInitialize(G, Append(stack, Frame("pollAndUpdate", "initialize", FALSE, NoPort, "")))
    ELSE [G |-> [G EXCEPT !.statusBar = "fetching"],
          stack |-> Append(stack, Request(G))]

\* initialize after await processDetector.detect()
AfterDetect(G, stack, processInfo) ==
    LET f == Top(stack)
    IN  IF processInfo # NULL
        THEN CallPollAndUpdate(
                 SetConnection(G, processInfo.connectPort, processInfo.csrfToken),
                 Append(Pop(stack), Frame("initialize", "pollAndUpdate", f.enabled, NoPort, "")))
        ELSE Return([G EXCEPT !.statusBar = "Antigravity not found",
                              !.retryPrompts = @ + 1],
                    Pop(stack))

\* pollAndUpdate after await quotaService.poll() resolved: the client parsed
\* and retained the snapshot, the engine analyses it
AfterPollResolved(G, stack, models, step) ==
    LET snapshot == [timestamp |-> G.now + step, models |-> models]
    IN  Return([G EXCEPT !.now = @ + step,
                         !.lastSnapshot = snapshot,
                         !.polls = @ + 1,
                         !.E = AnalyzeEngine(@, snapshot),
                         !.statusBar = "updated"],
               Pop(stack))

\* pollAndUpdate after await quotaService.poll() rejected: the catch block
AfterPollRejected(G, stack, message) ==
    Return([G EXCEPT !.statusBar = message], Pop(stack))

\* The call chain st ran on to res.stack (or to its end) and left res.G
Settle(finished, res) ==
    /\ tasks' = (tasks (-) finished)
                (+) (IF res.stack = <<>> THEN EmptyBag ELSE SetToBag({res.stack}))
    /\ SetGlobals(res.G)
    /\ UNCHANGED clientVars
    /\ UNCHANGED parseVars

Running == activated /\ ~deactivated
Room == BagCardinality(tasks) < MaxTasks

\* activate: the commands and the configuration handler are registered and
\* initialize starts
Activate ==
    /\ ~activated
    /\ activated' = TRUE
    /\ Settle(EmptyBag, CallInitialize(Globals, <<>>))
    /\ UNCHANGED <<deactivated>>
    /\ UNCHANGED detectVars

\* the quotaViewer.enabled setting is edited before activation, when no
\* handler is registered (the handler of later edits is ConfigurationChanged)
SettingEdited(e) ==
    /\ ~activated
    /\ enabled # e
    /\ enabled' = e
    /\ UNCHANGED <<history, sessionStartQuotas, lastActiveModelId, lastSnapshot, now>>
    /\ UNCHANGED callVars
    /\ UNCHANGED detectVars
    /\ UNCHANGED <<port, csrfToken, isInitialized, pollingInterval, armed,
                   statusBar, retryPrompts, tasks, activated, deactivated,
                   connections, lastConnection>>
    /\ UNCHANGED clientVars
    /\ UNCHANGED parseVars

\* the quotaViewer.refresh command
CommandRefresh ==
    /\ Running /\ Room
    /\ Settle(EmptyBag, CallPollAndUpdate(Globals, <<>>))
    /\ UNCHANGED <<activated, deactivated>>
    /\ UNCHANGED detectVars

\* a tick of the interval timer armed by startPolling
TimerTick ==
    /\ armed > 0 /\ Room
    /\ Settle(EmptyBag, CallPollAndUpdate(Globals, <<>>))
    /\ UNCHANGED <<activated, deactivated>>
    /\ UNCHANGED detectVars

\* the quotaViewer.showDashboard command
CommandShowDashboard ==
    /\ Running /\ Room
    /\ IF lastSnapshot # NULL
       THEN /\ calls < MaxExtensionCalls
            /\ Settle(EmptyBag, [G |-> AnalyzeLast(Globals), stack |-> <<>>])
       ELSE Settle(EmptyBag,
                   CallPollAndUpdate(Globals,
                       <<Frame("showDashboard", "pollAndUpdate", FALSE, NoPort, "")>>))
    /\ UNCHANGED <<activated, deactivated>>
    /\ UNCHANGED detectVars

\* the quotaViewer.showQuickStatus command
CommandShowQuickStatus ==
    /\ Running
    /\ lastSnapshot # NULL
    /\ calls < MaxExtensionCalls
    /\ Settle(EmptyBag, [G |-> AnalyzeLast(Globals), stack |-> <<>>])
    /\ UNCHANGED <<activated, deactivated>>
    /\ UNCHANGED detectVars

\* deactivate
Deactivate ==
    /\ Running
    /\ deactivated' = TRUE
    /\ Settle(EmptyBag, [G |-> StopPolling(Globals), stack |-> <<>>])
    /\ UNCHANGED <<activated>>
    /\ UNCHANGED detectVars

\* the user answers the 'Could not detect' warning with Retry
RetryClicked ==
    /\ Running /\ Room
    /\ retryPrompts > 0
    /\ Settle(EmptyBag,
              CallInitialize([Globals EXCEPT !.retryPrompts = @ - 1], <<>>))
    /\ UNCHANGED <<activated, deactivated>>
    /\ UNCHANGED detectVars

\* the user dismisses the warning
RetryDismissed ==
    /\ retryPrompts > 0
    /\ Settle(EmptyBag, [G |-> [Globals EXCEPT !.retryPrompts = @ - 1], stack |-> <<>>])
    /\ UNCHANGED <<activated, deactivated>>
    /\ UNCHANGED detectVars

\* processDetector.detect() resolves for a waiting initialize
DetectDone(st, processInfo) ==
    /\ Top(st).at = "detect"
    /\ processInfo = NULL => retryPrompts < MaxPrompts
    /\ (processInfo # NULL /\ processInfo.csrfToken = "") => Len(st) <= MaxStack
    /\ Settle(SetToBag({st}), AfterDetect(Globals, st, processInfo))
    /\ UNCHANGED <<activated, deactivated>>
    /\ UNCHANGED detectVars

\* quotaService.poll() resolves for a waiting pollAndUpdate
PollResolved(st, models, step) ==
    /\ Top(st).at = "poll"
    /\ calls < MaxExtensionCalls
    /\ Settle(SetToBag({st}), AfterPollResolved(Globals, st, models, step))
    /\ UNCHANGED <<activated, deactivated>>
    /\ UNCHANGED detectVars

\* quotaService.poll() rejects for a waiting pollAndUpdate
PollRejected(st, message) ==
    /\ Top(st).at = "poll"
    /\ Settle(SetToBag({st}), AfterPollRejected(Globals, st, message))
    /\ UNCHANGED <<activated, deactivated>>
    /\ UNCHANGED detectVars

NextExtension ==
    \/ \E e \in BOOLEAN : SettingEdited(e)
    \/ Activate
    \/ CommandRefresh
    \/ TimerTick
    \/ CommandShowDashboard
    \/ CommandShowQuickStatus
    \/ Deactivate
    \/ RetryClicked
    \/ RetryDismissed
    \/ \E st \in BagToSet(tasks), processInfo \in DetectResults : DetectDone(st, processInfo)
    \/ \E st \in BagToSet(tasks), models \in PollModelLists, step \in ClockSteps :
          PollResolved(st, models, step)
    \/ \E st \in BagToSet(tasks), message \in PollFailures : PollRejected(st, message)

SpecExtension == Init /\ [][NextExtension]_vars

----------------------------------------------------------------------------
(* The extension with the handler of configuration changes *)

\* onDidChangeConfiguration for a change that affects quotaViewer, while the
\* handler is subscribed: the configuration is read again, then startPolling
\* if enabled, stopPolling if not.  A change of another quotaViewer setting
\* (e = enabled) runs the same code.
ConfigurationChanged(e) ==
    /\ Running
    /\ LET G == [Globals EXCEPT !.enabled = e]
       IN  Settle(EmptyBag, [G |-> IF e THEN StartPolling(G) ELSE StopPolling(G),
                             stack |-> <<>>])
    /\ UNCHANGED <<activated, deactivated>>
    /\ UNCHANGED detectVars

\* What detect resolves to in the runs with configuration changes: null, a
\* descriptor, or a descriptor with an empty token
ConfigDetectResults ==
    {NULL,
     [connectPort |-> 42001, csrfToken |-> "t1"],
     [connectPort |-> 42002, csrfToken |-> ""]}

NextConfig ==
    \/ \E e \in BOOLEAN : SettingEdited(e)
    \/ Activate
    \/ \E e \in BOOLEAN : ConfigurationChanged(e)
    \/ CommandRefresh
    \/ TimerTick
    \/ Deactivate
    \/ RetryClicked
    \/ RetryDismissed
    \/ \E st \in BagToSet(tasks), processInfo \in ConfigDetectResults : DetectDone(st, processInfo)
    \/ \E st \in BagToSet(tasks), models \in PollModelLists, step \in ClockSteps :
          PollResolved(st, models, step)
    \/ \E st \in BagToSet(tasks), message \in PollFailures : PollRejected(st, message)

SpecConfig == Init /\ [][NextConfig]_vars

----------------------------------------------------------------------------
(* One invocation of initialize or pollAndUpdate at a time, run to its end *)

\* A call chain in which detection keeps returning a descriptor with an empty
\* token nests initialize -> pollAndUpdate -> initialize without end.  The
\* frames under the innermost initialize then repeat, and running equal
\* repetitions on returns leaves what running one of them leaves (startPolling
\* and isInitialized = true are idempotent), so of three equal repetitions the
\* stack is kept with one.
Folded(stack) ==
    LET n == Len(stack)
    IN  IF /\ n >= 7
           /\ stack[n - 1] = stack[n - 3] /\ stack[n - 3] = stack[n - 5]
           /\ stack[n - 2] = stack[n - 4] /\ stack[n - 4] = stack[n - 6]
        THEN SubSeq(stack, 1, n - 7) \o SubSeq(stack, n - 2, n)
        ELSE stack

\* processDetector.detect() resolves for the waiting initialize, whatever the
\* depth of the call chain
DetectSettles(st, processInfo) ==
    /\ Top(st).at = "detect"
    /\ processInfo = NULL => retryPrompts < MaxPrompts
    /\ LET res == AfterDetect(Globals, st, processInfo)
       IN  Settle(SetToBag({st}), [G |-> res.G, stack |-> Folded(res.stack)])
    /\ UNCHANGED <<activated, deactivated>>
    /\ UNCHANGED detectVars

\* The awaited detection or request completes, fails or times out
Completes ==
    \/ \E st \in BagToSet(tasks), processInfo \in DetectResults : DetectSettles(st, processInfo)
    \/ \E st \in BagToSet(tasks), models \in PollModelLists, step \in ClockSteps :
          PollResolved(st, models, step)
    \/ \E st \in BagToSet(tasks), message \in PollFailures : PollRejected(st, message)

NextTermination ==
    \/ \E e \in BOOLEAN : SettingEdited(e)
    \/ Activate
    \/ tasks = EmptyBag /\ CommandRefresh
    \/ tasks = EmptyBag /\ RetryClicked
    \/ RetryDismissed
    \/ Completes

\* Every command, probe and request eventually completes, fails or times out
SpecTermination == Init /\ [][NextTermination]_vars /\ WF_vars(Completes)

----------------------------------------------------------------------------
(* QuotaService called directly: setConnection, poll, and the events of a
   request *)

MaxClientPolls == 2    \* poll() calls in a run of SpecClient
\* parseResponse and the prediction
MaxRawModels == 2
MaxThousandths == 15
MaxPredictionPolls == 2
MaxCredits == 4
MaxLines == 3          \* lines of a command output
MaxItems == 2          \* items of a JSON array
MaxBlocks == 2         \* blocks of the wmic format
MaxSessionCalls == 2

\* The arguments setConnection is called with
ClientPorts == {-1, 0, 42001}
ClientTokens == {"", "t1"}

\* What a response's body can be: text that is not JSON, JSON without
\* userStatus, or a user status whose configs parseResponse turns into models
ResponseBodies ==
    {[json |-> FALSE, userStatus |-> FALSE, models |-> <<>>],
     [json |-> TRUE, userStatus |-> FALSE, models |-> <<>>]}
    \cup {[json |-> TRUE, userStatus |-> TRUE, models |-> m] : m \in PollModelLists}

\* A promise settled again after it has settled takes the later outcome
PromiseSettleLast(promise, outcome) == outcome

\* resolve(value) / reject(error) on the promise of request: only the first
\* call settles it
PromiseSettle(promise, outcome) ==
    IF promise = "pending" THEN outcome ELSE promise

\* poll that tests the port only against the unset value
PollThrowsUnsetPort(G) == G.port = NoPort

\* poll: if (!this.isConfigured()) throw new Error('QuotaService not configured')
PollThrows(G) == ~IsConfigured(G)

\* a failed poll that drops the retained snapshot
RetainedAfterDropping(retained, outcome, snapshot) ==
    IF outcome = "resolved" THEN snapshot ELSE NULL

\* this.lastSnapshot after poll's await: assigned only when request resolved
\* and parseResponse returned
RetainedAfter(retained, outcome, snapshot) ==
    IF outcome = "resolved" THEN snapshot ELSE retained

\* The request poll() sends: request's options take the client's port and
\* token; promise is the promise request returns, poll the promise poll
\* returns
NewRequest(G, id) ==
    [id |-> id, port |-> G.port, csrfToken |-> G.csrfToken,
     promise |-> "pending", poll |-> "pending",
     ended |-> FALSE, errored |-> FALSE, destroyed |-> FALSE,
     events |-> <<>>, settles |-> 0, retainedBefore |-> NULL]

\* The client's fields after the promise of request r was settled with
\* outcome on the event named event, for a body: when this settles the promise,
\* poll runs on from its await
PollContinues(r, event, outcome, body) ==
    LET settled == PromiseSettle(r.promise, outcome)
        runs == settled # r.promise
        parses == settled = "resolved" /\ body.userStatus
        result == IF settled = "resolved" /\ ~body.userStatus THEN "TypeError" ELSE settled
        snapshot == [timestamp |-> now + MsPerHour, models |-> body.models]
    IN  [request |-> [r EXCEPT !.promise = settled,
                               !.poll = IF runs THEN result ELSE @,
                               !.settles = IF runs THEN @ + 1 ELSE @,
                               !.retainedBefore = IF runs THEN lastSnapshot ELSE @,
                               !.events = Append(@, event)],
         lastSnapshot |-> IF runs THEN RetainedAfter(lastSnapshot, result, snapshot)
                          ELSE lastSnapshot,
         now |-> IF runs /\ parses THEN now + MsPerHour ELSE now]

\* What no call and no event of the client touches
otherThanClient ==
    <<history, sessionStartQuotas, lastActiveModelId, snapshotArg, mapped,
      modelsWithInsights, health, appended, lastActiveBefore, baselinesBefore, calls, polls,
      isInitialized, pollingInterval, armed, enabled, statusBar, retryPrompts,
      tasks, activated, deactivated, rawModels, rawPlanStatus, parsed, predictions,
      formattedTime, formattedPrediction, parsedPorts, parsedInfo>>

\* setConnection(p, t)
ClientSetConnection(p, t) ==
    /\ LET G == SetConnection(Globals, p, t)
       IN  /\ port' = G.port
           /\ csrfToken' = G.csrfToken
           /\ connections' = G.connections
           /\ lastConnection' = G.lastConnection
    /\ UNCHANGED <<lastSnapshot, now, requests, pollCalls, pollReturned, lastGood>>
    /\ UNCHANGED otherThanClient
    /\ UNCHANGED detectVars

\* poll(), up to its throw or its await
ClientPoll ==
    /\ pollCalls < MaxClientPolls
    /\ pollCalls' = pollCalls + 1
    /\ IF PollThrows(Globals)
       THEN /\ pollReturned' = "QuotaService not configured"
            /\ UNCHANGED requests
       ELSE /\ pollReturned' = "pending"
            /\ requests' = requests \cup {NewRequest(Globals, pollCalls + 1)}
    /\ UNCHANGED <<lastSnapshot, now, lastGood, port, csrfToken, connections,
                   lastConnection>>
    /\ UNCHANGED otherThanClient
    /\ UNCHANGED detectVars

\* The request's event handler ran: the request, the retained snapshot and
\* the clock afterwards
Handled(r, after) ==
    /\ requests' = (requests \ {r}) \cup {after.request}
    /\ lastSnapshot' = after.lastSnapshot
    /\ now' = after.now
    /\ UNCHANGED <<pollCalls, pollReturned, port, csrfToken, connections, lastConnection>>
    /\ UNCHANGED otherThanClient
    /\ UNCHANGED detectVars

\* res.on('end'): the body arrived whole; JSON.parse, then resolve or reject
ResponseEnd(r, body) ==
    /\ ~r.ended /\ ~r.errored /\ ~r.destroyed
    /\ LET outcome == IF body.json THEN "resolved" ELSE "Invalid JSON response"
           after == PollContinues(r, IF body.json THEN "end" ELSE "end, not JSON",
                                  outcome, body)
       IN  /\ Handled(r, [after EXCEPT !.request.ended = TRUE])
           /\ lastGood' = IF r.promise = "pending" /\ body.json /\ body.userStatus
                          THEN [timestamp |-> now + MsPerHour, models |-> body.models]
                          ELSE lastGood

\* req.on('error', reject): the connection failed, or the request was
\* destroyed before a response ("socket hang up")
RequestError(r) ==
    /\ ~r.ended /\ ~r.errored
    /\ LET after == PollContinues(r, "error",
                                  IF r.destroyed THEN "socket hang up" ELSE "ECONNREFUSED",
                                  [json |-> FALSE, userStatus |-> FALSE, models |-> <<>>])
       IN  Handled(r, [after EXCEPT !.request.errored = TRUE])
    /\ UNCHANGED lastGood

\* req.on('timeout'): req.destroy(), then reject(new Error('Request timeout'))
RequestTimeout(r) ==
    /\ ~r.ended /\ ~r.errored /\ ~r.destroyed
    /\ LET after == PollContinues(r, "timeout", "Request timeout",
                                  [json |-> FALSE, userStatus |-> FALSE, models |-> <<>>])
       IN  Handled(r, [after EXCEPT !.request.destroyed = TRUE])
    /\ UNCHANGED lastGood

NextClient ==
    \/ \E p \in ClientPorts, t \in ClientTokens : ClientSetConnection(p, t)
    \/ ClientPoll
    \/ \E r \in requests, body \in ResponseBodies : ResponseEnd(r, body)
    \/ \E r \in requests : RequestError(r)
    \/ \E r \in requests : RequestTimeout(r)

SpecClient == Init /\ [][NextClient]_vars

----------------------------------------------------------------------------
(* Numbers: the response's JSON numbers become IEEE 754 doubles *)

\* A finite double >= 0 is [exp, bits]: bits is its 53-bit significand, most
\* significant first, bits[1] = 1 weighing 2^exp; zero has no bits.
SignificandBits == 53
DoubleZero == [exp |-> 0, bits |-> <<>>]
DoubleOne == [exp |-> 0, bits |-> <<1>> \o [i \in 1..(SignificandBits - 1) |-> 0]]
\* binary digits written out when a decimal literal is converted
LiteralDigits == 70
\* 100 < 2^7
HundredBits == 7
\* SignificandBits + HundredBits = 3 * LimbBits
LimbBits == 20

RECURSIVE PowerOfTwoMod(_, _)
\* 2^k mod d
PowerOfTwoMod(k, d) ==
    IF k = 0 THEN 1 % d
    ELSE LET h == PowerOfTwoMod(k \div 2, d)
         IN  (h * h * (IF k % 2 = 1 THEN 2 ELSE 1)) % d

\* what is left of r/d after its first k binary digits, for r < d
BinaryRemainder(r, d, k) == (r * PowerOfTwoMod(k, d)) % d

\* the first k binary digits of r/d after the point, for r < d
BinaryDigits(r, d, k) ==
    [i \in 1..k |-> IF 2 * BinaryRemainder(r, d, i - 1) >= d THEN 1 ELSE 0]

\* the zeros before the first one
LeadingZeros(digits) ==
    IF \A i \in DOMAIN digits : digits[i] = 0 THEN Len(digits)
    ELSE (CHOOSE i \in DOMAIN digits :
              digits[i] = 1 /\ \A j \in 1..(i - 1) : digits[j] = 0) - 1

\* digits + 1, for digits that are not all ones
Increment(digits) ==
    LET last == CHOOSE i \in DOMAIN digits :
                    digits[i] = 0 /\ \A j \in (i + 1)..Len(digits) : digits[j] = 1
    IN  [i \in DOMAIN digits |->
            IF i < last THEN digits[i] ELSE IF i = last THEN 1 ELSE 0]

\* Round to nearest, ties to even: the double nearest to the number whose binary
\* digits are the given ones, the first weighing 2^weight, followed by more
\* non-zero digits iff sticky.
RoundToDouble(digits, weight, sticky) ==
    LET z == LeadingZeros(digits)
        sig == SubSeq(digits, z + 1, Len(digits))
        e == weight - z
    IN  IF sig = <<>> THEN DoubleZero
        ELSE IF Len(sig) <= SignificandBits
        THEN [exp |-> e, bits |-> sig \o [i \in 1..(SignificandBits - Len(sig)) |-> 0]]
        ELSE LET kept == SubSeq(sig, 1, SignificandBits)
                 half == sig[SignificandBits + 1]
                 rest == sticky \/ \E i \in (SignificandBits + 2)..Len(sig) : sig[i] = 1
                 up == half = 1 /\ (rest \/ kept[SignificandBits] = 1)
             IN  IF ~up THEN [exp |-> e, bits |-> kept]
                 ELSE IF \A i \in 1..SignificandBits : kept[i] = 1
                 THEN [exp |-> e + 1, bits |-> DoubleOne.bits]
                 ELSE [exp |-> e, bits |-> Increment(kept)]

\* JSON.parse of the decimal literal n/d, 0 <= n <= d: the nearest double
ToDouble(n, d) ==
    RoundToDouble(BinaryDigits(n, 2 * d, LiteralDigits), 0,
                  BinaryRemainder(n, 2 * d, LiteralDigits) # 0)

\* the k binary digits of n < 2^k
Binary(n, k) == [i \in 1..k |-> (n \div 2^(k - i)) % 2]

RECURSIVE Number(_)
\* the number a short run of binary digits writes
Number(digits) ==
    LET n == Len(digits)
    IN  IF n = 0 THEN 0
        ELSE IF n = 1 THEN digits[1]
        ELSE Number(SubSeq(digits, 1, n \div 2)) * 2^(n - n \div 2)
             + Number(SubSeq(digits, n \div 2 + 1, n))

\* The digits of bits * c, HundredBits digits longer than bits: long
\* multiplication over three limbs of LimbBits digits.
TimesDigits(bits, c) ==
    LET padded == [i \in 1..HundredBits |-> 0] \o bits
        limb(k) == Number(SubSeq(padded, (k - 1) * LimbBits + 1, k * LimbBits))
        low == limb(3) * c
        mid == limb(2) * c + low \div 2^LimbBits
        high == limb(1) * c + mid \div 2^LimbBits
    IN  Binary(high, LimbBits) \o Binary(mid % 2^LimbBits, LimbBits)
            \o Binary(low % 2^LimbBits, LimbBits)

\* x * 100 in the reals: every digit of the product
TimesHundredExact(x) ==
    IF x = DoubleZero THEN DoubleZero
    ELSE [exp |-> x.exp + HundredBits, bits |-> TimesDigits(x.bits, 100)]

\* x * 100 as the program computes it: the exact product rounded to a double
TimesHundred(x) ==
    IF x = DoubleZero THEN DoubleZero
    ELSE RoundToDouble(TimesDigits(x.bits, 100), x.exp + HundredBits, FALSE)

\* the digit of x weighing 2^w
DigitAt(x, w) ==
    LET i == x.exp - w + 1
    IN  IF i >= 1 /\ i <= Len(x.bits) THEN x.bits[i] ELSE 0

RECURSIVE IntegerPart(_, _)
\* the digits of x weighing 2^w .. 2^0, as a number
IntegerPart(x, w) ==
    IF w < 0 THEN 0 ELSE DigitAt(x, w) * 2^w + IntegerPart(x, w - 1)

\* Math.round(x), x >= 0: the nearest integer, a tie going up
MathRound(x) == IntegerPart(x, x.exp) + DigitAt(x, -1)

----------------------------------------------------------------------------
(* QuotaService.parseResponse *)

Thousand == 1000
MsPerMinute == 60000

\* The remainingFraction literals of a response: n thousandths, and 1
FractionLiterals ==
    {[n |-> k, d |-> Thousand] : k \in (0..MaxThousandths) \cup {Thousand}}

\* m.modelOrAlias?.model: absent, or an id
RawModelIds == {UNDEFINED, "a"}

\* m.quotaInfo: absent, or with remainingFraction absent or a number
QuotaInfos == {NULL} \cup {[remainingFraction |-> f] : f \in {NULL} \cup FractionLiterals}

\* RawModelConfig (label and resetTime play no part in what follows)
RawModelConfigs == {[model |-> i, quotaInfo |-> q] : i \in RawModelIds, q \in QuotaInfos}

\* the object the map callback returns for one raw entry with quotaInfo
ParseModel(m) ==
    LET remainingFraction ==
            IF m.quotaInfo.remainingFraction = NULL THEN DoubleOne
            ELSE ToDouble(m.quotaInfo.remainingFraction.n, m.quotaInfo.remainingFraction.d)
    IN  [modelId |-> IF m.model \in {UNDEFINED, ""} THEN "unknown" ELSE m.model,
         remainingFraction |-> remainingFraction,
         remainingPercent |-> MathRound(TimesHundred(remainingFraction)),
         isExhausted |-> remainingFraction = DoubleZero]

RECURSIVE ParseModelsKeepAll(_)
\* the map without the filter: an entry without quotaInfo becomes a resource
\* with nothing left
ParseModelsKeepAll(raw) ==
    IF raw = <<>> THEN <<>>
    ELSE IF Head(raw).quotaInfo = NULL
    THEN <<[modelId |-> IF Head(raw).model \in {UNDEFINED, ""} THEN "unknown"
                        ELSE Head(raw).model,
            remainingFraction |-> DoubleZero,
            remainingPercent |-> 0,
            isExhausted |-> TRUE]>> \o ParseModelsKeepAll(Tail(raw))
    ELSE <<ParseModel(Head(raw))>> \o ParseModelsKeepAll(Tail(raw))

RECURSIVE ParseModels(_)
\* rawModels.filter(m => m.quotaInfo).map(...)
ParseModels(raw) ==
    IF raw = <<>> THEN <<>>
    ELSE IF Head(raw).quotaInfo = NULL THEN ParseModels(Tail(raw))
    ELSE <<ParseModel(Head(raw))>> \o ParseModels(Tail(raw))

\* Number(x) for a figure of the response: a JSON number, a string of decimal
\* digits, or nothing (undefined); NaN is a value of its own
NaN == [nan |-> TRUE]

RECURSIVE DecimalValue(_)
DecimalValue(digits) ==
    IF digits = <<>> THEN 0
    ELSE 10 * DecimalValue(SubSeq(digits, 1, Len(digits) - 1)) + digits[Len(digits)]

ToNumber(figure) ==
    IF figure = NULL THEN NaN
    ELSE IF "number" \in DOMAIN figure THEN [value |-> figure.number]
    ELSE [value |-> DecimalValue(figure.digits)]

Abs(x) == IF x < 0 THEN -x ELSE x

\* the quotient a / b, b > 0, in lowest terms
Quotient(a, b) ==
    LET g == GCD(Abs(a), b)
    IN  [num |-> a \div g, den |-> b \div g]

\* parseResponse's promptCredits zero-filled when it cannot be computed
ParsePromptCreditsZeroFilled(planStatus) ==
    LET planInfo == IF planStatus = NULL THEN NULL ELSE planStatus.planInfo
        availableCredits ==
            IF planStatus = NULL THEN NULL ELSE planStatus.availablePromptCredits
        monthly == IF planInfo = NULL THEN NaN ELSE ToNumber(planInfo.monthlyPromptCredits)
        available == ToNumber(availableCredits)
    IN  IF planInfo # NULL /\ availableCredits # NULL /\ monthly # NaN /\ monthly.value > 0
        THEN [available |-> available.value,
              monthly |-> monthly.value,
              usedPercentage |->
                  Quotient((monthly.value - available.value) * 100, monthly.value),
              remainingPercentage |-> Quotient(available.value * 100, monthly.value)]
        ELSE [available |-> 0, monthly |-> 0,
              usedPercentage |-> Quotient(0, 1), remainingPercentage |-> Quotient(0, 1)]

\* parseResponse's promptCredits: undefined (null here) unless planInfo and
\* availablePromptCredits are there and monthly > 0
ParsePromptCredits(planStatus) ==
    LET planInfo == IF planStatus = NULL THEN NULL ELSE planStatus.planInfo
        availableCredits ==
            IF planStatus = NULL THEN NULL ELSE planStatus.availablePromptCredits
    IN  IF planInfo # NULL /\ availableCredits # NULL
        THEN LET monthly == ToNumber(planInfo.monthlyPromptCredits)
                 available == ToNumber(availableCredits)
             IN  IF monthly # NaN /\ monthly.value > 0
                 THEN [available |-> available.value,
                       monthly |-> monthly.value,
                       usedPercentage |->
                           Quotient((monthly.value - available.value) * 100, monthly.value),
                       remainingPercentage |->
                           Quotient(available.value * 100, monthly.value)]
                 ELSE NULL
        ELSE NULL

\* parseResponse, at clock t
ParseResponse(planStatus, raw, t) ==
    [timestamp |-> t,
     models |-> ParseModels(raw),
     promptCredits |-> ParsePromptCredits(planStatus)]

otherThanParse ==
    <<history, sessionStartQuotas, lastActiveModelId, lastSnapshot, now,
      snapshotArg, mapped, modelsWithInsights, health, appended,
      lastActiveBefore, baselinesBefore, calls, polls>>

\* the response's clientModelConfigs array, one more entry of it; the ids the
\* server does send are distinct
ResponseModel(m) ==
    /\ parsed = NULL
    /\ Len(rawModels) < MaxRawModels
    /\ m.model # UNDEFINED => \A k \in DOMAIN rawModels : rawModels[k].model # m.model
    /\ rawModels' = Append(rawModels, m)
    /\ UNCHANGED <<rawPlanStatus, parsed, predictions,
      formattedTime, formattedPrediction, parsedPorts, parsedInfo>>
    /\ UNCHANGED <<otherThanParse, detectVars, extensionVars, clientVars>>

\* the response has ended and is parsed
ResponseParsed ==
    /\ parsed = NULL
    /\ parsed' = ParseResponse(rawPlanStatus, rawModels, now)
    /\ UNCHANGED <<rawModels, rawPlanStatus, predictions,
      formattedTime, formattedPrediction, parsedPorts, parsedInfo>>
    /\ UNCHANGED <<otherThanParse, detectVars, extensionVars, clientVars>>

NextParse ==
    \/ \E m \in RawModelConfigs : ResponseModel(m)
    \/ ResponseParsed

SpecParse == Init /\ [][NextParse]_vars

\* The figures of a response: JSON numbers and strings of digits
CreditFigures ==
    {[number |-> n] : n \in (-1)..MaxCredits} \cup {[digits |-> <<n>>] : n \in 0..MaxCredits}

\* userStatus.planStatus, when it is there: planInfo absent, or with its
\* monthly figure; availablePromptCredits absent, or a figure
PlanStatuses ==
    {[planInfo |-> i, availablePromptCredits |-> a] :
        i \in {NULL} \cup {[monthlyPromptCredits |-> f] : f \in {NULL} \cup CreditFigures},
        a \in {NULL} \cup CreditFigures}

\* the response's planStatus section
ResponsePlanStatus(planStatus) ==
    /\ parsed = NULL
    /\ rawPlanStatus = NULL
    /\ rawPlanStatus' = planStatus
    /\ UNCHANGED <<rawModels, parsed, predictions,
      formattedTime, formattedPrediction, parsedPorts, parsedInfo>>
    /\ UNCHANGED <<otherThanParse, detectVars, extensionVars, clientVars>>

NextCredits ==
    \/ \E planStatus \in PlanStatuses : ResponsePlanStatus(planStatus)
    \/ ResponseParsed

SpecCredits == Init /\ [][NextCredits]_vars

----------------------------------------------------------------------------
(* InsightsService.analyzeModel: the exhaustion prediction *)

\* model.remainingPercent / burnRate, as a fraction in lowest terms
HoursUntilEmpty(remainingPercent, burnRate) ==
    LET g == GCD(burnRate.den, burnRate.num)
        a == remainingPercent * (burnRate.den \div g)
        b == burnRate.num \div g
        k == GCD(a, b)
    IN  [num |-> a \div k, den |-> b \div k]

\* hours * 60 * 60 * 1000, whole milliseconds
HoursToMs(hours) ==
    LET q == hours.num \div hours.den
        m == (hours.num % hours.den) * MsPerMinute
    IN  q * MsPerHour + (m \div hours.den) * 60 + ((m % hours.den) * 60) \div hours.den

\* formatPrediction with days from 48 hours on, not from above 48 hours
FormatPredictionDaysFrom48(hours) ==
    IF hours.num >= 48 * hours.den
    THEN [text |-> "~d", days |-> hours.num \div (24 * hours.den)]
    ELSE IF hours.num > hours.den
    THEN LET h == hours.num \div hours.den
             m == RoundFraction((hours.num - h * hours.den) * 60, hours.den)
         IN  IF m > 0 THEN [text |-> "~h m", h |-> h, m |-> m]
             ELSE [text |-> "~h", h |-> h]
    ELSE LET mins == RoundFraction(hours.num * 60, hours.den)
         IN  IF mins > 0 THEN [text |-> "~m", mins |-> mins] ELSE [text |-> "<1m"]

\* formatPrediction; a label is its text with the numbers it is filled with
FormatPrediction(hours) ==
    IF hours.num > 48 * hours.den
    THEN [text |-> "~d", days |-> hours.num \div (24 * hours.den)]
    ELSE IF hours.num > hours.den
    THEN LET h == hours.num \div hours.den
             m == RoundFraction((hours.num - h * hours.den) * 60, hours.den)
         IN  IF m > 0 THEN [text |-> "~h m", h |-> h, m |-> m]
             ELSE [text |-> "~h", h |-> h]
    ELSE LET mins == RoundFraction(hours.num * 60, hours.den)
         IN  IF mins > 0 THEN [text |-> "~m", mins |-> mins] ELSE [text |-> "<1m"]

\* analyzeModel's predictedExhaustion and predictedExhaustionLabel, at clock t
PredictExhaustion(model, burnRate, t) ==
    IF burnRate # ZeroRate /\ model.remainingPercent > 0
    THEN LET hoursUntilEmpty == HoursUntilEmpty(model.remainingPercent, burnRate)
         IN  [predictedExhaustion |-> [time |-> t + HoursToMs(hoursUntilEmpty)],
              predictedExhaustionLabel |-> FormatPrediction(hoursUntilEmpty)]
    ELSE IF model.isExhausted
    THEN [predictedExhaustion |-> NULL, predictedExhaustionLabel |-> [text |-> "Exhausted"]]
    ELSE [predictedExhaustion |-> NULL, predictedExhaustionLabel |-> [text |-> "Safe"]]

PredictionSteps == {MsPerMinute, MsPerHour}

\* The raw entries of the polls analysed: one resource, its id present
PredictionConfigs == {m \in RawModelConfigs : m.model = "a"}

\* poll(): a response of one raw entry has ended; it is parsed and retained
PollParsed(m, step) ==
    /\ polls < MaxPredictionPolls
    /\ snapshotArg = parsed
    /\ now' = now + step
    /\ rawModels' = <<m>>
    /\ UNCHANGED rawPlanStatus
    /\ parsed' = ParseResponse(NULL, <<m>>, now + step)
    /\ lastSnapshot' = parsed'
    /\ polls' = polls + 1
    /\ UNCHANGED <<engineVars, snapshotArg, mapped, modelsWithInsights, health, appended,
                   lastActiveBefore, baselinesBefore, calls, predictions,
      formattedTime, formattedPrediction, parsedPorts, parsedInfo>>
    /\ UNCHANGED <<detectVars, extensionVars, clientVars>>

\* pollAndUpdate goes on after its await: the snapshot poll() returned is analysed
AnalyzeParsed ==
    /\ snapshotArg # parsed
    /\ Analyze(parsed)
    /\ predictions' =
           [k \in DOMAIN parsed.models |->
               PredictExhaustion(parsed.models[k],
                                 CalculateBurnRate(RecordSnapshot(history, parsed),
                                                   parsed.models[k].modelId),
                                 now)]
    /\ UNCHANGED <<lastSnapshot, now, polls, rawModels, rawPlanStatus, parsed>>
    /\ UNCHANGED <<formattedTime, formattedPrediction, parsedPorts, parsedInfo>>
    /\ UNCHANGED <<detectVars, extensionVars, clientVars>>

NextPrediction ==
    \/ \E m \in PredictionConfigs, step \in PredictionSteps : PollParsed(m, step)
    \/ AnalyzeParsed

SpecPrediction == Init /\ [][NextPrediction]_vars

\* formatTime with the minutes rounded down
FormatTimeFloor(ms) ==
    IF ms <= 0 THEN [text |-> "Ready"]
    ELSE LET mins == ms \div MsPerMinute
         IN  IF mins < 60 THEN [text |-> "m", mins |-> mins]
             ELSE LET hours == mins \div 60
                      remainingMins == mins % 60
                  IN  IF hours < 24
                      THEN IF remainingMins > 0
                           THEN [text |-> "h m", hours |-> hours, mins |-> remainingMins]
                           ELSE [text |-> "h", hours |-> hours]
                      ELSE LET days == hours \div 24
                               remainingHours == hours % 24
                           IN  IF remainingHours > 0
                               THEN [text |-> "d h", days |-> days, hours |-> remainingHours]
                               ELSE [text |-> "d", days |-> days]

\* formatTime; a label is its text with the numbers it is filled with
FormatTime(ms) ==
    IF ms <= 0 THEN [text |-> "Ready"]
    ELSE LET mins == (ms + MsPerMinute - 1) \div MsPerMinute
         IN  IF mins < 60 THEN [text |-> "m", mins |-> mins]
             ELSE LET hours == mins \div 60
                      remainingMins == mins % 60
                  IN  IF hours < 24
                      THEN IF remainingMins > 0
                           THEN [text |-> "h m", hours |-> hours, mins |-> remainingMins]
                           ELSE [text |-> "h", hours |-> hours]
                      ELSE LET days == hours \div 24
                               remainingHours == hours % 24
                           IN  IF remainingHours > 0
                               THEN [text |-> "d h", days |-> days, hours |-> remainingHours]
                               ELSE [text |-> "d", days |-> days]

\* Whole minutes at which formatTime changes its form, and next to them
FormatMinutes ==
    (0..61) \cup {119, 120, 121, 1439, 1440, 1441, 1499, 1500, 1501, 2879, 2880, 2881,
                  4319, 4320}

\* timeUntilReset: resetTime - now in ms, on and next to whole minutes, and
\* reset times in the past
FormatDurations ==
    {k * MsPerMinute + d : k \in FormatMinutes, d \in {-1, 0, 1}}
    \cup {-MsPerMinute, -MsPerHour}

\* timeUntilResetFormatted: this.formatTime(diff)
FormatTimeCalled(ms) ==
    /\ formattedTime' = [ms |-> ms, label |-> FormatTime(ms)]
    /\ UNCHANGED <<rawModels, rawPlanStatus, parsed, predictions, formattedPrediction,
                   parsedPorts, parsedInfo>>
    /\ UNCHANGED <<otherThanParse, detectVars, extensionVars, clientVars>>

\* Hours until a quota is empty: every half minute up to two hours, the
\* half-seconds (1/7200 h) next to 0, 1, 2 and 48 hours, and days
PredictionHours ==
    {[num |-> n, den |-> 120] : n \in 1..241}
    \cup {[num |-> n, den |-> 7200] :
            n \in {1, 59, 60, 61, 7199, 7201, 14399, 14401,
                   48 * 7200 - 1, 48 * 7200, 48 * 7200 + 1}}
    \cup {[num |-> n, den |-> 2] : n \in {47, 48, 49, 95, 96, 97, 143, 144, 145}}

\* predictedExhaustionLabel: this.formatPrediction(hoursUntilEmpty)
FormatPredictionCalled(hours) ==
    /\ formattedPrediction' = [hours |-> hours, label |-> FormatPrediction(hours)]
    /\ UNCHANGED <<rawModels, rawPlanStatus, parsed, predictions, formattedTime,
                   parsedPorts, parsedInfo>>
    /\ UNCHANGED <<otherThanParse, detectVars, extensionVars, clientVars>>

\* one call of one of them
NextFormat ==
    /\ formattedTime = NULL
    /\ formattedPrediction = NULL
    /\ \/ \E ms \in FormatDurations : FormatTimeCalled(ms)
       \/ \E hours \in PredictionHours : FormatPredictionCalled(hours)

SpecFormat == Init /\ [][NextFormat]_vars

----------------------------------------------------------------------------
(* The platform strategies' parsers *)

Platforms == {"win32", "darwin", "linux"}

\* The digits after the colon of an address: 8, 08, 9, 10
PortTexts == {<<8>>, <<0, 8>>, <<9>>, <<1, 0>>}

\* A line of a port listing: a record one of the three patterns matches (the
\* connection table's LISTENING row, ss's LISTEN row, lsof's (LISTEN) row),
\* with the digits of its port, or a line none of them matches
PortLines ==
    {[tool |-> "none"]}
    \cup {[tool |-> tool, port |-> digits] : tool \in {"netstat", "ss", "lsof"},
                                            digits \in PortTexts}

RECURSIVE SequencesUpTo(_, _)
\* the sequences over S of at most n elements
SequencesUpTo(S, n) ==
    IF n = 0 THEN {<<>>}
    ELSE LET shorter == SequencesUpTo(S, n - 1)
         IN  shorter \cup {Append(s, x) : s \in shorter, x \in S}

PortOutputs == SequencesUpTo(PortLines, MaxLines)

\* ports.push(port) without the includes test
PushPortAlways(found, p) == Append(found, p)

\* if (!ports.includes(port)) ports.push(port)
PushPort(found, p) ==
    IF \E k \in DOMAIN found : found[k] = p THEN found ELSE Append(found, p)

RECURSIVE ExecAll(_, _, _)
\* while ((match = regex.exec(stdout)) !== null): the matches in the order
\* of the text, parseInt(match[1], 10) pushed onto found
ExecAll(tool, stdout, found) ==
    IF stdout = <<>> THEN found
    ELSE ExecAll(tool, Tail(stdout),
                 IF Head(stdout).tool = tool
                 THEN PushPort(found, DecimalValue(Head(stdout).port))
                 ELSE found)

RECURSIVE InsertAscending(_, _)
InsertAscending(sorted, x) ==
    IF sorted = <<>> THEN <<x>>
    ELSE IF Head(sorted) - x <= 0 THEN <<Head(sorted)>> \o InsertAscending(Tail(sorted), x)
    ELSE <<x>> \o sorted

RECURSIVE SortAscending(_)
\* ports.sort((a, b) => a - b)
SortAscending(s) ==
    IF s = <<>> THEN <<>>
    ELSE InsertAscending(SortAscending(SubSeq(s, 1, Len(s) - 1)), s[Len(s)])

\* WindowsStrategy.parseListeningPorts, and UnixStrategy.parseListeningPorts
\* on darwin and on linux
ParseListeningPorts(platform, stdout) ==
    IF platform = "win32" THEN SortAscending(ExecAll("netstat", stdout, <<>>))
    ELSE IF platform = "darwin" THEN SortAscending(ExecAll("lsof", stdout, <<>>))
    ELSE LET ss == ExecAll("ss", stdout, <<>>)
         IN  SortAscending(IF Len(ss) = 0 THEN ExecAll("lsof", stdout, ss) ELSE ss)

\* getListeningPorts: the port command's output is parsed
ParseListeningPortsCalled(platform, stdout) ==
    /\ parsedPorts' = [platform |-> platform, stdout |-> stdout,
                       ports |-> ParseListeningPorts(platform, stdout)]
    /\ UNCHANGED <<rawModels, rawPlanStatus, parsed, predictions, formattedTime,
                   formattedPrediction, parsedInfo>>
    /\ UNCHANGED <<otherThanParse, detectVars, extensionVars, clientVars>>

\* What the two patterns of a command line find: whether it is Antigravity's
\* (isAntigravityProcess), the digits after --extension_server_port and the
\* text after --csrf_token, each absent or present
CommandLines ==
    {[antigravity |-> a, port |-> digits, token |-> token] :
        a \in BOOLEAN, digits \in {NULL, [digits |-> <<4>>]},
        token \in {NULL, [text |-> "t"]}}

\* JSON.parse(stdout.trim()): null, a number, an object with ProcessId and
\* CommandLine absent or present, or an array of nulls and such objects
JsonNull == [json |-> "null"]
JsonNumber == [json |-> "number"]

JsonObjects ==
    {[json |-> "object", ProcessId |-> pid, CommandLine |-> commandLine] :
        pid \in {NULL, [number |-> 0], [number |-> 7]},
        commandLine \in {NULL} \cup CommandLines}

JsonValues ==
    {JsonNull, JsonNumber}
    \cup JsonObjects
    \cup {[json |-> "array", items |-> items] :
            items \in SequencesUpTo({JsonNull} \cup JsonObjects, MaxItems)}

\* A block of wmic's list format: what /ProcessId=(\d+)/ and
\* /CommandLine=(.+)/ find in it
WmicBlocks ==
    {[ProcessId |-> pid, CommandLine |-> commandLine] :
        pid \in {NULL, [digits |-> <<7>>]}, commandLine \in {NULL} \cup CommandLines}

\* The process command's output on Windows: text JSON.parse accepts, or text
\* it rejects with its blocks (none for empty output)
WindowsOutputs ==
    {[kind |-> "json", value |-> value] : value \in JsonValues}
    \cup {[kind |-> "text", blocks |-> blocks] :
            blocks \in SequencesUpTo(WmicBlocks, MaxBlocks)}

\* the outcome of a piece of code: it returned a value, or it threw
Returned(value) == [returned |-> value]
Threw == [threw |-> TRUE]

\* parseInt(portMatch[1], 10), or 0 without a match
ExtensionPort(commandLine) ==
    IF commandLine.port = NULL THEN 0 ELSE DecimalValue(commandLine.port.digits)

\* item.CommandLine && this.isAntigravityProcess(item.CommandLine), which
\* reads a property of item
IsAntigravityItem(item) ==
    /\ item.CommandLine # NULL
    /\ item.CommandLine.antigravity

\* !pid
NoPid(pid) == pid = NULL \/ pid = [number |-> 0]

\* the body of the try block, from the parsed data on
ParseJsonData(data) ==
    IF data.json = "array"
    THEN IF Len(data.items) = 0 THEN Returned(NULL)
         ELSE IF \E k \in DOMAIN data.items : data.items[k] = JsonNull
         THEN Threw   \* the filter callback reads null.CommandLine
         ELSE LET antigravityProcesses ==
                      SelectSeq(data.items, IsAntigravityItem)
              IN  IF Len(antigravityProcesses) = 0 THEN Returned(NULL)
                  ELSE LET first == antigravityProcesses[1]
                       IN  IF NoPid(first.ProcessId) THEN Returned(NULL)
                           ELSE IF first.CommandLine.token = NULL THEN Returned(NULL)
                           ELSE Returned([pid |-> [value |-> first.ProcessId.number],
                                          extensionPort |-> ExtensionPort(first.CommandLine),
                                          csrfToken |-> first.CommandLine.token.text])
    ELSE IF data = JsonNull THEN Threw   \* data.CommandLine of null
    ELSE IF data = JsonNumber THEN Returned(NULL)
    ELSE IF ~IsAntigravityItem(data) THEN Returned(NULL)
    ELSE IF NoPid(data.ProcessId) THEN Returned(NULL)
    ELSE IF data.CommandLine.token = NULL THEN Returned(NULL)
    ELSE Returned([pid |-> [value |-> data.ProcessId.number],
                   extensionPort |-> ExtensionPort(data.CommandLine),
                   csrfToken |-> data.CommandLine.token.text])

RECURSIVE ParseWmicBlocks(_)
\* the loop over the blocks of the wmic format
ParseWmicBlocks(blocks) ==
    IF blocks = <<>> THEN NULL
    ELSE LET block == Head(blocks)
         IN  IF block.ProcessId = NULL \/ block.CommandLine = NULL
             THEN ParseWmicBlocks(Tail(blocks))
             ELSE IF ~block.CommandLine.antigravity THEN ParseWmicBlocks(Tail(blocks))
             ELSE IF block.CommandLine.token = NULL THEN ParseWmicBlocks(Tail(blocks))
             ELSE [pid |-> [value |-> DecimalValue(block.ProcessId.digits)],
                   extensionPort |-> ExtensionPort(block.CommandLine),
                   csrfToken |-> block.CommandLine.token.text]

\* WindowsStrategy.parseProcessInfo (usePowerShell is always true): what the
\* try block throws is caught and the wmic parsing follows; text that is JSON
\* holds no wmic block
WindowsParseProcessInfo(stdout) ==
    LET tried == IF stdout.kind = "json" THEN ParseJsonData(stdout.value)
                 ELSE Threw   \* JSON.parse: SyntaxError
    IN  IF tried # Threw THEN tried
        ELSE Returned(ParseWmicBlocks(IF stdout.kind = "text" THEN stdout.blocks ELSE <<>>))

\* A line of pgrep -fl: whether it includes --extension_server_port, the
\* digits its first word starts with (none: parseInt gives NaN), and what the
\* two patterns find in the rest
UnixLines ==
    {[flag |-> FALSE]}
    \cup {[flag |-> TRUE, pid |-> pid, port |-> digits, token |-> token] :
            pid \in {NULL, [digits |-> <<7>>]}, digits \in {NULL, [digits |-> <<4>>]},
            token \in {NULL, [text |-> "t"]}}

UnixOutputs == SequencesUpTo(UnixLines, MaxLines)

RECURSIVE UnixParseLines(_)
\* UnixStrategy.parseProcessInfo: the first line that includes the flag
UnixParseLines(lines) ==
    IF lines = <<>> THEN NULL
    ELSE LET line == Head(lines)
         IN  IF line.flag
             THEN [pid |-> IF line.pid = NULL THEN NaN
                           ELSE [value |-> DecimalValue(line.pid.digits)],
                   extensionPort |-> ExtensionPort(line),
                   csrfToken |-> IF line.token = NULL THEN "" ELSE line.token.text]
             ELSE UnixParseLines(Tail(lines))

UnixParseProcessInfo(stdout) == Returned(UnixParseLines(stdout))

ProcessOutputs(platform) ==
    IF platform = "win32" THEN WindowsOutputs ELSE UnixOutputs

ParseProcessInfo(platform, stdout) ==
    IF platform = "win32" THEN WindowsParseProcessInfo(stdout)
    ELSE UnixParseProcessInfo(stdout)

\* detect: the process command's output is parsed
ParseProcessInfoCalled(platform, stdout) ==
    /\ parsedInfo' = [platform |-> platform, stdout |-> stdout,
                      outcome |-> ParseProcessInfo(platform, stdout)]
    /\ UNCHANGED <<rawModels, rawPlanStatus, parsed, predictions, formattedTime,
                   formattedPrediction, parsedPorts>>
    /\ UNCHANGED <<otherThanParse, detectVars, extensionVars, clientVars>>

\* one call of one parser
NextStrategy ==
    /\ parsedPorts = NULL
    /\ parsedInfo = NULL
    /\ \/ \E platform \in Platforms, stdout \in PortOutputs :
             ParseListeningPortsCalled(platform, stdout)
       \/ \E platform \in Platforms :
             \E stdout \in ProcessOutputs(platform) :
                ParseProcessInfoCalled(platform, stdout)

SpecStrategy == Init /\ [][NextStrategy]_vars

\* The raw entries of the polls whose session usage is followed: the id
\* absent or present, with 0, 1 or 100 percent left
SessionConfigs ==
    {m \in RawModelConfigs :
        /\ m.quotaInfo # NULL
        /\ m.quotaInfo.remainingFraction # NULL
        /\ m.quotaInfo.remainingFraction.n \in {0, 10, Thousand}}

\* clientModelConfigs of up to two such entries; the ids the server does send
\* are distinct
SessionResponses ==
    {<<>>}
    \cup {<<m>> : m \in SessionConfigs}
    \cup {<<pair[1], pair[2]>> :
            pair \in {pr \in SessionConfigs \X SessionConfigs :
                         pr[2].model # UNDEFINED => pr[2].model # pr[1].model}}

\* the resources parseResponse makes of them
SessionModelLists == {ParseModels(raw) : raw \in SessionResponses}

NextSession ==
    \/ \E models \in SessionModelLists, step \in ClockSteps :
          calls < MaxSessionCalls /\ AnalyzeSnapshot(models, step)
    \/ calls < MaxSessionCalls /\ AnalyzeRetained

SpecSession == Init /\ [][NextSession]_vars

----------------------------------------------------------------------------
(* Properties of the Analytics Engine *)

\* The entries the history must hold after `calls` pushes: the last
\* min(calls, MAX_HISTORY) of everything pushed, in push order.
Retained == SubSeq(appended, calls - Min(calls, MAX_HISTORY) + 1, calls)

\* C1: the history never holds more than 20 entries, and after k analyze calls
\* it is exactly the min(k, 20) most recently appended entries, in append order.
C1_HistoryFifo ==
    /\ Len(appended) = calls
    /\ Len(history) <= MAX_HISTORY
    /\ Len(history) = Min(calls, MAX_HISTORY)
    /\ history = Retained

\* More than 20 calls were made, the first entry pushed is gone and the
\* history's ends differ.
C1_Witness ==
    /\ calls > MAX_HISTORY + 1
    /\ Len(history) = MAX_HISTORY
    /\ history[1] # appended[1]
    /\ history[1] # history[MAX_HISTORY]

\* The burn rate the claim describes, from the oldest and the newest of the
\* retained entries.
ExpectedBurnRate(id) ==
    IF Len(Retained) < 2 THEN ZeroRate
    ELSE LET oldest == Retained[1]
             newest == Retained[Len(Retained)]
         IN  IF \/ id \notin DOMAIN oldest.models
                \/ id \notin DOMAIN newest.models
                \/ newest.timestamp <= oldest.timestamp
                \/ oldest.models[id] - newest.models[id] <= 0
             THEN ZeroRate
             ELSE [num |-> (oldest.models[id] - newest.models[id]) * MsPerHour,
                   den |-> newest.timestamp - oldest.timestamp]

\* C2: calculateBurnRate is never negative; it is 0 with fewer than 2 entries,
\* with the id missing from the oldest or newest retained entry, or with no time
\* elapsed between them; otherwise it is max(0, drop / elapsed hours) between
\* those two entries. The rates analyze returns are these.
C2_BurnRate ==
    /\ \A id \in ModelIds \cup {"other"} :
          LET r == CalculateBurnRate(history, id)
          IN  /\ r.num >= 0
              /\ r.den > 0
              /\ r = ExpectedBurnRate(id)
    /\ \A k \in DOMAIN mapped :
          /\ mapped[k].burnRate.num >= 0
          /\ mapped[k].burnRate = ExpectedBurnRate(mapped[k].modelId)

\* After an eviction, "a" burns at a positive rate that differs from the one the
\* first entry ever pushed would give, and "b" recovers or is missing (rate 0).
C2_Witness ==
    /\ calls > MAX_HISTORY
    /\ CalculateBurnRate(history, "a") # ZeroRate
    /\ CalculateBurnRate(history, "a") # CalculateBurnRate(<<appended[1], appended[calls]>>, "a")
    /\ CalculateBurnRate(<<appended[1], appended[calls]>>, "a") # ZeroRate
    /\ CalculateBurnRate(history, "b") = ZeroRate

\* C3: once a resource has a session baseline, no analyze call changes it.
C3_BaselineFirstSeen ==
    [][\A id \in DOMAIN sessionStartQuotas :
          /\ id \in DOMAIN sessionStartQuotas'
          /\ sessionStartQuotas'[id] = sessionStartQuotas[id]]_vars

\* "a" was first seen at 40, was absent from the next snapshot and is reported
\* at 50 by the third; its baseline is still 40.
C3_Witness ==
    /\ calls = 3
    /\ "a" \in DOMAIN appended[1].models /\ appended[1].models["a"] = 40
    /\ "a" \notin DOMAIN appended[2].models
    /\ "a" \in DOMAIN appended[3].models /\ appended[3].models["a"] = 50
    /\ sessionStartQuotas["a"] = 40

\* The remembered active id when the k-th resource of the snapshot is
\* evaluated: the id of the last resource marked active before it in this call,
\* or else the id remembered when the call began.
RememberedAt(k) ==
    LET earlier == {j \in 1..(k - 1) : mapped[j].isActive}
    IN  IF earlier = {} THEN lastActiveBefore
        ELSE mapped[CHOOSE j \in earlier : \A o \in earlier : o <= j].modelId

\* The k-th resource's burn rate is above 1 %/hour and is the highest of the
\* snapshot's.
HasMaxBurn(k) ==
    /\ RateAboveOne(mapped[k].burnRate)
    /\ \A j \in DOMAIN mapped : RateLE(mapped[j].burnRate, mapped[k].burnRate)

\* C4: a resource is marked active only if its burn rate is above 1 %/hour and
\* the highest of the snapshot, or it is the remembered active id when it is
\* evaluated; with no remembered id and fewer than 2 history entries nothing is
\* active.
C4_ActiveOnlyByRule ==
    /\ \A k \in DOMAIN mapped :
          mapped[k].isActive => HasMaxBurn(k) \/ mapped[k].modelId = RememberedAt(k)
    /\ (lastActiveBefore = UNDEFINED /\ Len(history) < 2) =>
          \A k \in DOMAIN mapped : ~mapped[k].isActive

\* One resource is active by persistence alone, with no burn, while the other,
\* with less remaining, is not active.
C4_Witness ==
    \E k, j \in DOMAIN mapped :
        /\ mapped[k].isActive
        /\ mapped[k].burnRate = ZeroRate
        /\ ~mapped[j].isActive
        /\ mapped[j].remainingPercent < mapped[k].remainingPercent

\* C5 (as claimed): a resource marked active that is not the remembered one has
\* a burn rate above 1 %/hour strictly greater than every other resource's.
C5_StrictMaxBurn ==
    \A k \in DOMAIN mapped :
        (mapped[k].isActive /\ mapped[k].modelId # RememberedAt(k)) =>
            /\ RateAboveOne(mapped[k].burnRate)
            /\ \A j \in DOMAIN mapped \ {k} :
                   ~RateLE(mapped[k].burnRate, mapped[j].burnRate)

\* C6 (as claimed): the resource remembered as active when the call began is
\* marked active wherever it stands in the snapshot.
C6_PersistenceAnyPosition ==
    \A k \in DOMAIN mapped :
        mapped[k].modelId = lastActiveBefore => mapped[k].isActive

\* C31: persistence has no decay. Once an id is remembered as active the
\* remembered id is never cleared, and every analyze call in which no resource
\* burns more than 1 percent an hour leaves the remembered id as it was and
\* marks the resource that carries it active, however many calls came before.
C31_PersistenceNoDecay ==
    [][lastActiveModelId # UNDEFINED =>
          /\ lastActiveModelId' # UNDEFINED
          /\ (\A k \in DOMAIN mapped' : ~RateAboveOne(mapped'[k].burnRate)) =>
                /\ lastActiveModelId' = lastActiveModelId
                /\ \A k \in DOMAIN mapped' :
                      mapped'[k].modelId = lastActiveModelId => mapped'[k].isActive]_vars

\* more analyze calls than the history holds entries, nothing burns any
\* more, and the remembered resource is still marked active
C31_Witness ==
    /\ calls > MAX_HISTORY
    /\ \A k \in DOMAIN mapped : mapped[k].burnRate = ZeroRate
    /\ \E k \in DOMAIN mapped :
          /\ mapped[k].modelId = lastActiveBefore
          /\ mapped[k].isActive
          /\ lastActiveModelId = mapped[k].modelId

\* C32: persistence keeps the last known active resource only when there is
\* no new clear winner: in a call where one resource, not the remembered one,
\* qualifies by its burn rate (above 1 %/h and the highest), the remembered
\* resource is not marked active, so the winner is the only active resource.
C32_OneActiveWithNewWinner ==
    LET winners == {k \in DOMAIN mapped : HasMaxBurn(k)}
        active == {k \in DOMAIN mapped : mapped[k].isActive}
    IN  (/\ lastActiveBefore # UNDEFINED
         /\ Cardinality(winners) = 1
         /\ \A k \in winners : mapped[k].modelId # lastActiveBefore)
            => active = winners /\ Cardinality(active) = 1

----------------------------------------------------------------------------
(* Properties of the Process Locator *)

\* C9: detect(maxRetries) enters at most maxRetries attempts; the first probe
\* that answers 200 ends it at once with a descriptor, in the attempt it was
\* made in; with no such probe it makes exactly maxRetries attempts and returns
\* null; the delay is waited after each attempt but the last, and only then.
C9_DetectAttempts ==
    /\ attempts <= maxRetries
    /\ verified <= 1
    /\ detPc \in {"ps", "ports", "probe"} =>
          /\ attempts = retry + 1
          /\ delays = attempts - 1
          /\ verified = 0
    /\ detPc = "wait" =>
          /\ attempts = retry + 1
          /\ attempts < maxRetries
          /\ delays = attempts
          /\ verified = 0
    /\ verified = 1 => detPc = "done" /\ detected # NULL
    /\ (detPc = "done" /\ detected # NULL) =>
          /\ verified = 1
          /\ probes # <<>> /\ probes[Len(probes)].ok
          /\ attempts = retry + 1
          /\ delays = attempts - 1
    /\ (detPc = "done" /\ detected = NULL) =>
          /\ verified = 0
          /\ attempts = maxRetries
          /\ delays = Max(0, maxRetries - 1)

\* detect(3) returned a descriptor from its second attempt, after one delay,
\* and made no third attempt.
C9_Witness ==
    /\ detPc = "done"
    /\ detected # NULL
    /\ maxRetries = 3
    /\ attempts = 2
    /\ delays = 1

\* The ports of `ports` that have been probed in the current attempt.
ProbedPorts == {probes[k].port : k \in DOMAIN probes}

\* C10: within an attempt the ports are probed one at a time in list
\* (ascending) order and nothing is probed after a 200; a returned connectPort
\* is the smallest listed port that answered 200, every smaller listed port was
\* probed and failed, no larger one was probed; an attempt that ends without a
\* port had no 200 answer and probed every listed port.
C10_FindWorkingPort ==
    /\ Len(probes) <= Len(ports)
    /\ \A k \in DOMAIN probes : probes[k].port = ports[k]
    /\ \A j, k \in DOMAIN probes : j < k => probes[j].port < probes[k].port
    /\ \A k \in DOMAIN probes : k < Len(probes) => ~probes[k].ok
    /\ detPc = "probe" => portIndex = Len(probes) + 1
    /\ detected # NULL =>
          LET c == detected.connectPort
          IN  /\ \E k \in DOMAIN probes : probes[k] = [port |-> c, ok |-> TRUE]
              /\ \A k \in DOMAIN probes : probes[k].ok => c <= probes[k].port
              /\ \A k \in DOMAIN ports :
                    /\ ports[k] < c => [port |-> ports[k], ok |-> FALSE] \in
                                           {probes[j] : j \in DOMAIN probes}
                    /\ ports[k] > c => ports[k] \notin ProbedPorts
    /\ (detPc \in {"wait", "done"} /\ detected = NULL) =>
          /\ \A k \in DOMAIN probes : ~probes[k].ok
          /\ Len(probes) = Len(ports)

\* Of three listed ports the first was probed and failed, the second answered
\* 200 and is the connectPort, the third was never probed.
C10_Witness ==
    /\ detected # NULL
    /\ Len(ports) = 3
    /\ detected.connectPort = ports[2]
    /\ probes = <<[port |-> ports[1], ok |-> FALSE], [port |-> ports[2], ok |-> TRUE]>>

\* What a probe or a command can fail with
DiscoveryFailures == {"process list", "port list", "404", "error", "timeout"}

\* C11: discovery degrades instead of failing: a failing or timed-out
\* process-list command, a failing port-list command and a probe that errors,
\* times out or answers a non-200 status never make detect reject; whatever
\* failed, detect resolves to null or to a descriptor with a probed port.
C11_DetectNeverRejects ==
    /\ detPc # "rejected"
    /\ detPc = "done" =>
          \/ detected = NULL
          \/ /\ detected.connectPort \in PortNumbers
             /\ [pid |-> detected.pid, extensionPort |-> detected.extensionPort,
                 csrfToken |-> detected.csrfToken] \in ProcessInfos

\* detect resolved to a descriptor in a call in which both commands failed
\* and two probes failed in different ways
C11_Witness ==
    /\ detPc = "done"
    /\ detected # NULL
    /\ failures \subseteq DiscoveryFailures
    /\ {"process list", "port list"} \subseteq failures
    /\ Cardinality(failures) >= 4

----------------------------------------------------------------------------
(* Properties of the extension's polling *)

\* The call chains that wait for the answer to a poll request
PollTasks == {st \in BagToSet(tasks) : Top(st).at = "poll"}
PollsInFlight == BagCardinality([st \in PollTasks |-> tasks[st]])

\* C7: poll-and-analyze cycles do not overlap: whatever starts them (a timer
\* tick, the refresh command, opening the dashboard), at most one poll request
\* is in flight at any time.
C7_NoOverlap == PollsInFlight <= 1

\* C8: every poll request in flight was sent with a port and a token that one
\* setConnection call set together: never the port of one descriptor with the
\* token of another, whenever setConnection ran.
C8_ConsistentConnection ==
    \A st \in PollTasks : <<Top(st).port, Top(st).csrfToken>> \in connections

\* A request is in flight with one descriptor's pair after setConnection has
\* replaced it in the client by the pair of another descriptor
C8_Witness ==
    /\ Cardinality(connections) >= 2
    /\ <<port, csrfToken>> \in connections
    /\ \E st \in PollTasks :
          /\ Top(st).port # port
          /\ Top(st).csrfToken # csrfToken
          /\ Top(st).csrfToken # ""

----------------------------------------------------------------------------
(* Properties of the Quota Client *)

\* C12: poll() called while the client is unconfigured (port <= 0 or empty
\* token) fails at once with 'QuotaService not configured', sends no request
\* and leaves the retained snapshot, the port and the token unchanged.
C12_UnconfiguredPollFails ==
    [][(pollCalls' = pollCalls + 1 /\ (port <= 0 \/ csrfToken = ""))
          => /\ pollReturned' = "QuotaService not configured"
             /\ requests' = requests
             /\ lastSnapshot' = lastSnapshot
             /\ port' = port
             /\ csrfToken' = csrfToken]_vars

\* poll() failed with the configuration error on a client that holds a port
\* but no token, and a snapshot retained by an earlier poll
C12_Witness ==
    /\ pollReturned = "QuotaService not configured"
    /\ port > 0
    /\ csrfToken = ""
    /\ lastSnapshot # NULL
    /\ Cardinality(requests) = 1

\* C13: the client retains exactly the snapshot of the most recent successful
\* poll: a successful poll replaces it, a failed poll (transport error,
\* timeout, body that is not JSON, response without userStatus) leaves it, and
\* it is null before the first successful poll.
C13_RetainsLatestSuccessful == lastSnapshot = lastGood

\* A poll failed on a response without userStatus after an earlier poll had
\* retained a snapshot, which is still retained
C13_Witness ==
    \E r \in requests :
        /\ r.poll = "TypeError"
        /\ r.retainedBefore # NULL
        /\ lastSnapshot = r.retainedBefore

\* The errors of the network layer
TransportErrors == {"ECONNREFUSED", "socket hang up"}

\* C14: each failed poll settles exactly once, with one error kind that tells
\* the cause: the timeout error when the request timed out first (although the
\* request is then destroyed and emits an error), a transport error when the
\* network failed first, the parse error when the body is not JSON.
C14_OneErrorKind ==
    /\ TransportErrors \cap {"Request timeout", "Invalid JSON response"} = {}
    /\ \A r \in requests :
          r.events # <<>> =>
             /\ r.settles = 1
             /\ Head(r.events) = "timeout" => r.poll = "Request timeout"
             /\ Head(r.events) = "error" => r.poll \in TransportErrors
             /\ Head(r.events) = "end, not JSON" => r.poll = "Invalid JSON response"

\* A request timed out, was destroyed and then emitted its error; the poll
\* failed with the timeout error
C14_Witness ==
    \E r \in requests :
        /\ r.events = <<"timeout", "error">>
        /\ r.poll = "Request timeout"

\* C15: after any sequence of setConnection calls isConfigured() is true if
\* and only if the port set last is > 0 and the token set last is non-empty;
\* it is false on a fresh client.
C15_ConfiguredIffLastSet ==
    IsConfigured(Globals) <=>
        /\ lastConnection # NULL
        /\ lastConnection.port > 0
        /\ lastConnection.csrfToken # ""

\* A client that was configured is unconfigured after a later setConnection
\* with a port and an empty token
C15_Witness ==
    /\ ~IsConfigured(Globals)
    /\ lastConnection # NULL
    /\ lastConnection.port > 0
    /\ \E c \in connections : c[1] > 0 /\ c[2] # ""

----------------------------------------------------------------------------
(* Properties of the extension's life cycle *)

\* C16: once deactivate has run no periodic polling timer is armed, and none
\* becomes armed afterwards, also when an initialize was still in flight at
\* the time of deactivation.
C16_NoTimerAfterDeactivate == deactivated => armed = 0 /\ ~pollingInterval

\* C17: every failure path returns control: when every detection and request
\* eventually completes, each invocation of initialize and of pollAndUpdate
\* eventually ends, whatever detection and polling answer (a descriptor with
\* an empty token included).
C17_InvocationsEnd == (tasks # EmptyBag) ~> (tasks = EmptyBag)

----------------------------------------------------------------------------
(* Properties of parseResponse and of the exhaustion prediction *)

\* the raw entries parseResponse keeps, in order
WithQuotaInfo(raw) == SelectSeq(raw, LAMBDA m : m.quotaInfo # NULL)

\* C18: in every snapshot produced by parseResponse the resource ids are
\* pairwise distinct, whatever the upstream list of model configs, entries
\* without a model identifier included.
C18_DistinctIds ==
    parsed # NULL =>
        \A i, j \in DOMAIN parsed.models :
            i # j => parsed.models[i].modelId # parsed.models[j].modelId

\* a label that begins with '~'
Tilde(label) == label.text \in {"~d", "~h m", "~h", "~m"}

\* C19: for every resource analysed, the label is 'Exhausted' whenever
\* remainingPercent is 0, whatever the burn rate; it is 'Safe' when the burn
\* rate is 0 and the resource is not exhausted; and a prediction timestamp with
\* a '~' label is produced exactly when burnRate > 0 and remainingPercent > 0.
C19_ExhaustionLabel ==
    (parsed # NULL /\ snapshotArg = parsed) =>
        \A k \in DOMAIN parsed.models :
            LET model == parsed.models[k]
                burnRate == mapped[k].burnRate
                label == predictions[k].predictedExhaustionLabel
            IN  /\ model.remainingPercent = 0 => label.text = "Exhausted"
                /\ (burnRate = ZeroRate /\ ~model.isExhausted) => label.text = "Safe"
                /\ (predictions[k].predictedExhaustion # NULL /\ Tilde(label))
                       <=> (burnRate # ZeroRate /\ model.remainingPercent > 0)

\* C20: for every raw entry with quota info, the normalized resource has
\* remainingPercent = round(100 * remainingFraction) and isExhausted exactly
\* when remainingFraction is 0, the fraction being 1 (percent 100, not
\* exhausted) when it is absent upstream.
C20_PercentOfFraction ==
    parsed # NULL =>
        /\ Len(parsed.models) = Len(WithQuotaInfo(rawModels))
        /\ \A k \in DOMAIN parsed.models :
               LET raw == WithQuotaInfo(rawModels)[k].quotaInfo.remainingFraction
                   model == parsed.models[k]
               IN  /\ model.remainingFraction =
                          (IF raw = NULL THEN DoubleOne ELSE ToDouble(raw.n, raw.d))
                   /\ model.remainingPercent =
                          MathRound(TimesHundredExact(model.remainingFraction))
                   /\ model.isExhausted <=> model.remainingFraction = DoubleZero
                   /\ raw = NULL => model.remainingPercent = 100 /\ ~model.isExhausted

C22_KeepsEntriesWithQuotaInfo ==
    parsed # NULL =>
        LET kept == WithQuotaInfo(rawModels)
        IN  /\ DOMAIN parsed.models = DOMAIN kept
            /\ \A k \in DOMAIN kept :
                   /\ parsed.models[k].modelId =
                          (IF kept[k].model = UNDEFINED THEN "unknown" ELSE kept[k].model)
                   /\ parsed.models[k].remainingFraction =
                          (IF kept[k].quotaInfo.remainingFraction = NULL THEN DoubleOne
                           ELSE ToDouble(kept[k].quotaInfo.remainingFraction.n,
                                         kept[k].quotaInfo.remainingFraction.d))

\* a response that begins with an entry without quota info, followed by one
\* with it, has been parsed to a single resource
C22_Witness ==
    /\ parsed # NULL
    /\ Len(rawModels) = 2
    /\ rawModels[1].quotaInfo = NULL
    /\ rawModels[2].quotaInfo # NULL
    /\ Len(parsed.models) = 1
    /\ parsed.models[1].modelId = "a"

----------------------------------------------------------------------------
(* Properties of the insights of one analyze call *)

RECURSIVE SumSeq(_)
\* the sum of a sequence of numbers
SumSeq(s) == IF s = <<>> THEN 0 ELSE Head(s) + SumSeq(Tail(s))

\* C23: for a snapshot with at least one resource and percents in 0..100,
\* overallHealth is the weighted mean of remainingPercent rounded to the
\* nearest integer (a half going up), an active resource weighing 3 and any
\* other 1; it lies in 0..100 and healthLabel is 'Excellent' from 75, 'Good'
\* from 50, 'Low' from 25 and 'Critical' below; for a snapshot without
\* resources they are 100 and 'Unknown'.
C23_OverallHealth ==
    health # NULL =>
        LET w == [k \in DOMAIN modelsWithInsights |->
                     IF modelsWithInsights[k].isActive THEN 3 ELSE 1]
            total == SumSeq(w)
            sum == SumSeq([k \in DOMAIN modelsWithInsights |->
                              w[k] * modelsWithInsights[k].remainingPercent])
            h == health.overallHealth
        IN  IF modelsWithInsights = <<>>
            THEN h = 100 /\ health.healthLabel = "Unknown"
            ELSE /\ 2 * h * total <= 2 * sum + total
                 /\ 2 * sum + total < 2 * (h + 1) * total
                 /\ h \in 0..100
                 /\ health.healthLabel =
                        (IF h >= 75 THEN "Excellent"
                         ELSE IF h >= 50 THEN "Good"
                         ELSE IF h >= 25 THEN "Low"
                         ELSE "Critical")

\* an active resource at 28 and an idle one at 30: the mean 28.5 became 29
C23_Witness ==
    /\ health # NULL
    /\ Len(modelsWithInsights) = 2
    /\ modelsWithInsights[1].isActive /\ modelsWithInsights[1].remainingPercent = 28
    /\ ~modelsWithInsights[2].isActive /\ modelsWithInsights[2].remainingPercent = 30
    /\ health.overallHealth = 29
    /\ health.healthLabel = "Low"

\* C24: the enriched resources returned by analyze are a permutation of the
\* snapshot's resources (same length, nothing dropped or duplicated), no
\* resource that is not active precedes an active one, and within the active
\* group and within the other group remainingPercent never decreases.
C24_SortedPermutation ==
    calls > 0 =>
        LET n == Len(modelsWithInsights) IN
        /\ n = Len(snapshotArg.models)
        /\ \E f \in [1..n -> 1..n] :
              /\ \A i, j \in 1..n : i # j => f[i] # f[j]
              /\ \A i \in 1..n :
                    /\ modelsWithInsights[i] = mapped[f[i]]
                    /\ modelsWithInsights[i].modelId = snapshotArg.models[f[i]].modelId
                    /\ modelsWithInsights[i].remainingPercent
                           = snapshotArg.models[f[i]].remainingPercent
        /\ \A i, j \in 1..n :
              i < j =>
                  /\ modelsWithInsights[j].isActive => modelsWithInsights[i].isActive
                  /\ modelsWithInsights[i].isActive = modelsWithInsights[j].isActive
                        => modelsWithInsights[i].remainingPercent
                               <= modelsWithInsights[j].remainingPercent

\* three resources, the last one of the response active and moved to the
\* front although another has a lower percent, the two others reordered
C24_Witness ==
    /\ calls > 0
    /\ Len(modelsWithInsights) = 3
    /\ mapped[3].isActive /\ ~mapped[1].isActive /\ ~mapped[2].isActive
    /\ mapped[1].remainingPercent > mapped[2].remainingPercent
    /\ mapped[3].remainingPercent > mapped[2].remainingPercent
    /\ modelsWithInsights = <<mapped[3], mapped[2], mapped[1]>>

\* C25: the trend of every enriched resource is decided by priority:
\* 'critical' if remainingPercent <= 10 or burnRate > 20; otherwise 'warning'
\* if remainingPercent <= 25 or burnRate > 10; otherwise 'decreasing' if
\* burnRate > 2; otherwise 'stable'. So a resource at 10 percent or less is
\* 'critical' whatever its burn rate, and a 'stable' one has more than 25
\* percent and burns at most 2 percent an hour.
C25_TrendByPriority ==
    \A k \in DOMAIN mapped :
        LET p == mapped[k].remainingPercent
            r == mapped[k].burnRate
            trend == mapped[k].trendDirection
            critical == p <= 10 \/ r.num > 20 * r.den
            warning == p <= 25 \/ r.num > 10 * r.den
            decreasing == r.num > 2 * r.den
        IN  /\ r.den > 0
            /\ trend \in {"critical", "warning", "decreasing", "stable"}
            /\ trend = "critical" <=> critical
            /\ trend = "warning" <=> ~critical /\ warning
            /\ trend = "decreasing" <=> ~critical /\ ~warning /\ decreasing
            /\ trend = "stable" <=> ~critical /\ ~warning /\ ~decreasing
            /\ p <= 10 => trend = "critical"
            /\ trend = "stable" => p > 25 /\ r.num <= 2 * r.den

\* one result with a resource 'critical' by its burn rate alone and another
\* one 'decreasing' at more than 25 percent
C25_Witness ==
    /\ Len(mapped) = 2
    /\ mapped[1].trendDirection = "critical" /\ mapped[1].remainingPercent > 25
    /\ mapped[2].trendDirection = "decreasing"
    /\ mapped[2].burnRate.num = 10 * mapped[2].burnRate.den

\* C26: the sessionUsage of every resource of every analyze result is
\* max(0, baseline percent - current percent), hence never negative; it is 0
\* in the call that first observes the resource and 0 whenever the current
\* percent is at or above the baseline.
C26_SessionUsageNeverNegative ==
    \A k \in DOMAIN mapped :
        LET id == mapped[k].modelId
            p == mapped[k].remainingPercent
            usage == mapped[k].sessionUsage
            first == id \notin DOMAIN baselinesBefore
            baseline == sessionStartQuotas[id]
        IN  /\ usage >= 0
            /\ baseline > p => usage = baseline - p
            /\ baseline <= p => usage = 0
            /\ first => usage = 0

----------------------------------------------------------------------------
(* Properties of the labels *)

\* C27: the reset label is 'Ready' for every duration of 0 ms or less; for a
\* longer one, with m the minutes rounded up: 'Nm' if m < 60; otherwise the
\* hours floor(m/60) and the leftover minutes ('Hh Mm', or 'Hh' when nothing
\* is left over) if that is less than 24 hours; otherwise the days and the
\* leftover hours ('Dd Hh', or 'Dd'). So a minutes component is always in
\* 1..59 and an hours component in 1..23.
C27_ResetLabel ==
    formattedTime # NULL =>
        LET d == formattedTime.ms
            label == formattedTime.label
        IN  IF d <= 0 THEN label = [text |-> "Ready"]
            ELSE \E m \in 1..(d \div MsPerMinute + 1) :
                    /\ (m - 1) * MsPerMinute < d /\ d <= m * MsPerMinute
                    /\ \E days \in 0..(m \div 1440), hours \in 0..23, mins \in 0..59 :
                          /\ m = (days * 24 + hours) * 60 + mins
                          /\ label =
                               (IF days = 0 /\ hours = 0 THEN [text |-> "m", mins |-> mins]
                                ELSE IF days = 0 /\ mins = 0 THEN [text |-> "h", hours |-> hours]
                                ELSE IF days = 0
                                THEN [text |-> "h m", hours |-> hours, mins |-> mins]
                                ELSE IF hours = 0 THEN [text |-> "d", days |-> days]
                                ELSE [text |-> "d h", days |-> days, hours |-> hours])
                    /\ "mins" \in DOMAIN label => label.mins \in 1..59
                    /\ "hours" \in DOMAIN label => label.hours \in 1..23
                    /\ "days" \in DOMAIN label => label.days >= 1

\* 7,260,000 ms and one more: two hours and two minutes, rounded up
C27_Witness ==
    /\ formattedTime # NULL
    /\ formattedTime.ms = 7260001
    /\ formattedTime.label = [text |-> "h m", hours |-> 2, mins |-> 2]

----------------------------------------------------------------------------
(* Properties of the platform strategies' parsers *)

\* the tool whose records parseListeningPorts recognises in the output
RecognisedTool(platform, stdout) ==
    IF platform = "win32" THEN "netstat"
    ELSE IF platform = "darwin" THEN "lsof"
    ELSE IF \E k \in DOMAIN stdout : stdout[k].tool = "ss" THEN "ss"
    ELSE "lsof"

\* C29: for every command output, each of the three port parsers (the Windows
\* connection table, lsof on darwin, ss with the lsof fallback on linux)
\* returns a strictly ascending list without duplicates, holding exactly the
\* distinct ports of the listening records it recognises.
C29_PortsAscendingDistinct ==
    parsedPorts # NULL =>
        LET result == parsedPorts.ports
            stdout == parsedPorts.stdout
            tool == RecognisedTool(parsedPorts.platform, stdout)
        IN  /\ \A i, j \in DOMAIN result : i < j => result[i] < result[j]
            /\ {result[i] : i \in DOMAIN result}
                 = {DecimalValue(stdout[k].port) :
                        k \in {n \in DOMAIN stdout : stdout[n].tool = tool}}

\* linux, ss rows for 10, 8 and 08: two ports, in ascending order
C29_Witness ==
    /\ parsedPorts # NULL
    /\ parsedPorts.platform = "linux"
    /\ parsedPorts.stdout = <<[tool |-> "ss", port |-> <<1, 0>>],
                              [tool |-> "ss", port |-> <<8>>],
                              [tool |-> "ss", port |-> <<0, 8>>]>>
    /\ parsedPorts.ports = <<8, 10>>

\* a process record the variant's parser is made for: on Windows an object or
\* a block with a process id and Antigravity's command line carrying the
\* token, on the Unix family a line 'pid command-args' with the port flag
IsProcessRecord(platform, entry) ==
    IF platform = "win32"
    THEN /\ entry # JsonNull
         /\ entry.ProcessId \notin {NULL, [number |-> 0]}
         /\ entry.CommandLine # NULL
         /\ entry.CommandLine.antigravity
         /\ entry.CommandLine.token # NULL
    ELSE entry.flag /\ entry.pid # NULL

\* the entries of a process command's output
OutputEntries(platform, stdout) ==
    IF platform # "win32" THEN {stdout[k] : k \in DOMAIN stdout}
    ELSE IF stdout.kind = "text" THEN {stdout.blocks[k] : k \in DOMAIN stdout.blocks}
    ELSE IF stdout.value.json = "object" THEN {stdout.value}
    ELSE IF stdout.value.json = "array"
    THEN {stdout.value.items[k] : k \in DOMAIN stdout.value.items}
    ELSE {}

\* C30: for every platform strategy, empty or unparseable command output
\* yields null from parseProcessInfo and an empty list from
\* parseListeningPorts, and neither parser throws to its caller, structured
\* output that is valid JSON but no process record (null, a number, an array
\* containing null) included.
C30_NoMatchNeverThrows ==
    /\ parsedInfo # NULL =>
          /\ parsedInfo.outcome # Threw
          /\ (\A entry \in OutputEntries(parsedInfo.platform, parsedInfo.stdout) :
                 ~IsProcessRecord(parsedInfo.platform, entry))
                => parsedInfo.outcome = Returned(NULL)
    /\ parsedPorts # NULL =>
          ((\A k \in DOMAIN parsedPorts.stdout : parsedPorts.stdout[k].tool = "none")
              => parsedPorts.ports = <<>>)

\* C39: every exhaustion label of the form '~Hh Mm' is well-formed: for every
\* hours value h with 1 < h <= 48 the minutes M are between 1 and 59; a value
\* that rounds up to a full hour is shown as the next hour, never as '60m'.
C39_MinutesBelowSixty ==
    formattedPrediction # NULL /\ formattedPrediction.label.text = "~h m" =>
        /\ formattedPrediction.label.m \in 1..59
        /\ formattedPrediction.label.h \in 1..48

\* C33: every descriptor detect returns has connectPort > 0 and a non-empty
\* token, so a client given them by setConnection(connectPort, token) is
\* configured.
C33_DescriptorConfigures ==
    (detPc = "done" /\ detected # NULL) =>
        /\ detected.connectPort > 0
        /\ detected.csrfToken # ""
        /\ IsConfigured([port |-> detected.connectPort,
                         csrfToken |-> detected.csrfToken])

\* The call chains whose initialize is awaiting processDetector.detect()
DetectionsInFlight(bag) ==
    LET waiting == {st \in BagToSet(bag) : Top(st).at = "detect"}
    IN  BagCardinality([st \in waiting |-> bag[st]])

\* C36: once isInitialized is true no operation starts process detection or
\* calls setConnection: the client's port and token stay those of the first
\* verified descriptor, whatever polls fail and whatever initialize calls
\* were started concurrently.  (Stated for a client that holds a port and a
\* token: a descriptor with an empty token is C33's matter.)
C36_ConnectionFixedOnceInitialized ==
    [][(isInitialized /\ IsConfigured(Globals)) =>
          /\ port' = port
          /\ csrfToken' = csrfToken
          /\ connections' = connections
          /\ DetectionsInFlight(tasks') <= DetectionsInFlight(tasks)]_vars

\* C37: read-only views leave the analytics state unchanged: a step that is
\* not a successful poll (showing the quick status or the dashboard of the
\* retained snapshot) changes neither the engine's history nor the session
\* baselines nor the remembered active id, so the history holds one entry per
\* successful poll.
C37_ViewsLeaveEngineUnchanged ==
    [][polls' = polls =>
          /\ history' = history
          /\ sessionStartQuotas' = sessionStartQuotas
          /\ lastActiveModelId' = lastActiveModelId
          /\ Len(history') = IF polls < MAX_HISTORY THEN polls ELSE MAX_HISTORY]_vars

\* The records a JSON output lists: the items of an array, or the one object
\* ConvertTo-Json prints for a single process
JsonRecords(value) == IF value.json = "array" THEN value.items ELSE <<value>>

\* A process record: an object with a process id (the command line may be
\* null, as it is for a process the caller may not inspect)
IsWindowsRecord(item) == item.json = "object" /\ ~NoPid(item.ProcessId)

\* The same records in wmic's list format: one block per record, the id in
\* decimal digits
WmicForm(records) ==
    [k \in DOMAIN records |->
        [ProcessId |-> [digits |-> <<records[k].ProcessId.number>>],
         CommandLine |-> records[k].CommandLine]]

\* The records of the target application that carry a token flag
Qualifying(records) ==
    SelectSeq(records, LAMBDA r : IsAntigravityItem(r) /\ r.CommandLine.token # NULL)

\* C38: for the same list of Windows process records the JSON form and the
\* key=value block form parse to the same result: the first record, in list
\* order, of the target application with a token flag, or null without one.
C38_FormsAgree ==
    (/\ parsedInfo # NULL
     /\ parsedInfo.platform = "win32"
     /\ parsedInfo.stdout.kind = "json"
     /\ \A k \in DOMAIN JsonRecords(parsedInfo.stdout.value) :
           IsWindowsRecord(JsonRecords(parsedInfo.stdout.value)[k]))
        => LET records == JsonRecords(parsedInfo.stdout.value)
               q == Qualifying(records)
               expected == IF q = <<>> THEN NULL
                           ELSE [pid |-> [value |-> q[1].ProcessId.number],
                                 extensionPort |-> ExtensionPort(q[1].CommandLine),
                                 csrfToken |-> q[1].CommandLine.token.text]
               blocks == [kind |-> "text", blocks |-> WmicForm(records)]
           IN  /\ WindowsParseProcessInfo(blocks) = Returned(expected)
               /\ parsedInfo.outcome = WindowsParseProcessInfo(blocks)

\* C34: at most one periodic polling timer is armed at any time, after any
\* interleaving of initialize completions, configuration changes and
\* deactivate: the armed timer, if any, is the one pollingInterval holds.
C34_AtMostOneTimer ==
    /\ armed <= 1
    /\ armed = IF pollingInterval THEN 1 ELSE 0

\* Two initialize calls set their connections and ran to their ends, each
\* through startPolling or not as the configuration it read said, and one
\* timer is armed
C34_Witness ==
    /\ ~deactivated
    /\ isInitialized
    /\ enabled
    /\ Cardinality(connections) >= 2
    /\ tasks = EmptyBag
    /\ armed = 1
    /\ pollingInterval

\* C35: once the handler has handled a change that set enabled = false (a
\* step from enabled to not enabled while the handler is subscribed) no timer
\* is armed, and none is armed by any later step until a change sets enabled
\* = true, also not by an initialize that read the configuration before the
\* change and completes after it.
C35_NoTimerWhileDisabled ==
    [][(activated /\ ~enabled') =>
          IF enabled THEN armed' = 0
          ELSE armed = 0 => armed' = 0]_vars

====
